---- MODULE Spec2Model ----
(***************************************************************************)
(* Antidote Intelligence: the hypothesis store, the hypothesis generator,   *)
(* the language-model gateway, the predicate compiler, the corpus filter    *)
(* and the confidence estimator of src/python/antidote.py (with the         *)
(* variants of src/main.py), as state machines.                             *)
(*                                                                          *)
(* Texts (hypotheses, filenames) are sequences of one-character strings, so *)
(* that normalisation, screening and evaluation are computed character by   *)
(* character as the Python code computes them.                              *)
(***************************************************************************)
EXTENDS Integers, Sequences, FiniteSets, TLC

VARIABLES
    \* HypothesisStore / generate_hypothesis
    hypotheses,      \* self.hypotheses["hypotheses"]: records, in insertion order
    hash_values,     \* self.hypotheses["hash_values"]: fingerprints, same order
    store_file,      \* the persisted hypotheses_store.json
    clock,           \* wall clock in seconds (time.strftime)
    gen,             \* the generate_hypothesis call in progress, or its result
    \* is_new_hypothesis probes
    probe,           \* the text last probed with is_new_hypothesis and the answer
    \* call_openai
    gw,              \* the call_openai call in progress, or its result
    gw_done,         \* the results of the finished call_openai calls, in order
    \* create_filter_script
    comp,            \* the last create_filter_script call and how it ended
    \* filter_data, sample_filtered_files, calculate_confidence
    artifacts,       \* the filtered lists on disk, by path (0: junk_data.txt)
    run,             \* the current run of filter, resample, estimate
    \* HypothesisStore.__init__ over an existing file, get_history_for_prompt
    ld,              \* a store constructed over a file and its last operation
    \* the API key, AntidoteIntelligence.__init__, the except branch of call_openai
    cred,            \* the constructed system, its key and the error text logged
    \* calculate_metrics, _generate_verdict
    met,             \* the last calculate_metrics call and what it returned
    \* run_pipeline (src/main.py) and the batch of runs around it
    pipe,            \* the batch: the run in progress, its stages called, the runs ended
    \* the overall verdict over the runs of a batch
    agg,             \* the verdict scores aggregated last and the overall verdict
    \* generate_hypothesis of several runs in parallel on one HypothesisStore
    par,             \* the shared fingerprints, the lock and each run's position
    \* AntidoteWebAPI of src/web_server.py
    web              \* current_analysis, analysis_thread, the requests and the background threads

storeVars == <<hypotheses, hash_values, store_file, clock, gen>>
probeVars == <<probe>>
gwVars == <<gw, gw_done>>
compVars == <<comp>>
filterVars == <<artifacts, run>>
loadVars == <<ld>>
credVars == <<cred>>
metVars == <<met>>
pipeVars == <<pipe>>
aggVars == <<agg>>
parVars == <<par>>
webVars == <<web>>

\* what the actions of one component leave alone: the other components' state
notStoreVars == <<probeVars, gwVars, compVars, filterVars, loadVars, credVars, metVars, pipeVars, aggVars, parVars, webVars>>
notProbeVars == <<gwVars, compVars, filterVars, loadVars, credVars, metVars, pipeVars, aggVars, parVars, webVars>>
notGwVars == <<storeVars, probeVars, compVars, filterVars, loadVars, credVars, metVars, pipeVars, aggVars, parVars, webVars>>
notCompVars == <<storeVars, probeVars, gwVars, filterVars, loadVars, credVars, metVars, pipeVars, aggVars, parVars, webVars>>
notFilterVars == <<storeVars, probeVars, gwVars, compVars, loadVars, credVars, metVars, pipeVars, aggVars, parVars, webVars>>
notLoadVars == <<storeVars, probeVars, gwVars, compVars, filterVars, credVars, metVars, pipeVars, aggVars, parVars, webVars>>
notCredVars == <<storeVars, probeVars, gwVars, compVars, filterVars, loadVars, metVars, pipeVars, aggVars, parVars, webVars>>
notMetVars == <<storeVars, probeVars, gwVars, compVars, filterVars, loadVars, credVars, pipeVars, aggVars, parVars, webVars>>
notPipeVars == <<storeVars, probeVars, gwVars, compVars, filterVars, loadVars, credVars, metVars, aggVars, parVars, webVars>>
notAggVars == <<storeVars, probeVars, gwVars, compVars, filterVars, loadVars, credVars, metVars, pipeVars, parVars, webVars>>
notParVars == <<storeVars, probeVars, gwVars, compVars, filterVars, loadVars, credVars, metVars, pipeVars, aggVars, webVars>>
notWebVars == <<storeVars, probeVars, gwVars, compVars, filterVars, loadVars, credVars, metVars, pipeVars, aggVars, parVars>>

(***************************************************************************)
(* Bounds of the model.                                                     *)
(***************************************************************************)
MaxRuns == 3
MaxClock == 1
MaxProbeEdits == 2
MaxGatewayCalls == 3

(***************************************************************************)
(* Characters and strings.                                                  *)
(***************************************************************************)
LowerLetters ==
    <<"a","b","c","d","e","f","g","h","i","j","k","l","m",
      "n","o","p","q","r","s","t","u","v","w","x","y","z">>

UpperLetters ==
    <<"A","B","C","D","E","F","G","H","I","J","K","L","M",
      "N","O","P","Q","R","S","T","U","V","W","X","Y","Z">>

DigitChars == <<"0","1","2","3","4","5","6","7","8","9">>

\* ASCII order of the alphanumeric characters: digits, upper case, lower case.
AsciiOrder == DigitChars \o UpperLetters \o LowerLetters

Range(s) == {s[i] : i \in DOMAIN s}

IndexOf(s, c) == CHOOSE i \in DOMAIN s : s[i] = c

IsUpper(c) == c \in Range(UpperLetters)
IsLower(c) == c \in Range(LowerLetters)
IsAlpha(c) == IsUpper(c) \/ IsLower(c)
IsDigit(c) == c \in Range(DigitChars)
IsAlnum(c) == IsAlpha(c) \/ IsDigit(c)
IsSpace(c) == c \in {" ", "\t", "\n"}

Ord(c) == IndexOf(AsciiOrder, c)

\* str.lower() on one character
ToLower(c) == IF IsUpper(c) THEN LowerLetters[IndexOf(UpperLetters, c)] ELSE c

\* str.upper() on one character
ToUpper(c) == IF IsLower(c) THEN UpperLetters[IndexOf(LowerLetters, c)] ELSE c

Lower(text) == [i \in DOMAIN text |-> ToLower(text[i])]

\* str.strip(): leading and trailing whitespace removed
RECURSIVE LStrip(_)
LStrip(text) ==
    IF text # <<>> /\ IsSpace(Head(text)) THEN LStrip(Tail(text)) ELSE text

RECURSIVE RStrip(_)
RStrip(text) ==
    IF text # <<>> /\ IsSpace(text[Len(text)])
    THEN RStrip(SubSeq(text, 1, Len(text) - 1))
    ELSE text

Strip(text) == RStrip(LStrip(text))

\* str.split(): the maximal runs of non-whitespace characters
RECURSIVE SplitFrom(_, _, _)
SplitFrom(text, word, words) ==
    IF text = <<>>
    THEN IF word = <<>> THEN words ELSE Append(words, word)
    ELSE IF IsSpace(Head(text))
         THEN SplitFrom(Tail(text), <<>>,
                        IF word = <<>> THEN words ELSE Append(words, word))
         ELSE SplitFrom(Tail(text), Append(word, Head(text)), words)

Split(text) == SplitFrom(text, <<>>, <<>>)

\* Python's order on strings: by code point, a proper prefix first
RECURSIVE StrLess(_, _)
StrLess(a, b) ==
    IF b = <<>> THEN FALSE
    ELSE IF a = <<>> THEN TRUE
    ELSE IF Head(a) = Head(b) THEN StrLess(Tail(a), Tail(b))
    ELSE Ord(Head(a)) < Ord(Head(b))

\* sorted(words)
RECURSIVE InsertSorted(_, _)
InsertSorted(w, sortedWords) ==
    IF sortedWords = <<>> THEN <<w>>
    ELSE IF StrLess(w, Head(sortedWords)) THEN <<w>> \o sortedWords
    ELSE <<Head(sortedWords)>> \o InsertSorted(w, Tail(sortedWords))

RECURSIVE Sorted(_)
Sorted(words) ==
    IF words = <<>> THEN <<>>
    ELSE InsertSorted(words[Len(words)], Sorted(SubSeq(words, 1, Len(words) - 1)))

\* ' '.join(words)
RECURSIVE Join(_)
Join(words) ==
    IF words = <<>> THEN <<>>
    ELSE IF Len(words) = 1 THEN words[1]
    ELSE words[1] \o <<" ">> \o Join(Tail(words))

\* hashlib.md5(text).hexdigest(): a digest determined by the text, taken to be
\* collision-free
Md5(text) == <<"md5", text>>

(***************************************************************************)
(* HypothesisStore                                                          *)
(***************************************************************************)
\* the normalisation of _get_hypothesis_hash without its sort of the words
NormalizeUnsorted(hypothesis) ==
    Join(Split(SelectSeq(Lower(hypothesis), LAMBDA c : IsAlnum(c) \/ IsSpace(c))))

\* the normalisation of _get_hypothesis_hash: lower case, punctuation removed,
\* words sorted and joined by single spaces
Normalize(hypothesis) ==
    Join(Sorted(Split(SelectSeq(Lower(hypothesis),
                                LAMBDA c : IsAlnum(c) \/ IsSpace(c)))))

_get_hypothesis_hash(hypothesis) == Md5(Normalize(hypothesis))

is_new_hypothesis(hashes, hypothesis) ==
    \A i \in DOMAIN hashes : hashes[i] # _get_hypothesis_hash(hypothesis)

\* the record add_hypothesis appends (the timestamp is the clock reading)
HypothesisRecord(hypothesis, run_id, now) ==
    [hypothesis |-> hypothesis, run_id |-> run_id, timestamp |-> now]

\* an add_hypothesis that appends no record
AddedNoHypothesis(hyps, hypothesis, run_id, now) == hyps

\* add_hypothesis, the in-memory part: one record and one fingerprint appended
AddedHypotheses(hyps, hypothesis, run_id, now) ==
    Append(hyps, HypothesisRecord(hypothesis, run_id, now))

AddedHashesInFront(hashes, hypothesis) ==
    <<_get_hypothesis_hash(hypothesis)>> \o hashes

AddedHashes(hashes, hypothesis) ==
    Append(hashes, _get_hypothesis_hash(hypothesis))

\* The persisted file: absent, the JSON of a store, or unparsable content.
AbsentFile == [kind |-> "absent", hypotheses |-> <<>>, hash_values |-> <<>>]
CorruptFile == [kind |-> "corrupt", hypotheses |-> <<>>, hash_values |-> <<>>]
JsonFile(hyps, hashes) ==
    [kind |-> "json", hypotheses |-> hyps, hash_values |-> hashes]

\* What a write of the store can do to the file: "ok" writes it, "open_failed"
\* leaves the file as it was, "dump_failed" leaves a truncated file; the
\* exception is logged and swallowed.
SaveOutcomes == {"ok", "open_failed", "dump_failed"}

_save_hypotheses(file, hyps, hashes, outcome) ==
    CASE outcome = "ok" -> JsonFile(hyps, hashes)
      [] outcome = "open_failed" -> file
      [] outcome = "dump_failed" -> CorruptFile

(***************************************************************************)
(* generate_hypothesis                                                      *)
(***************************************************************************)
\* max_attempts=3, the default of generate_hypothesis
DefaultMaxAttempts == 3

\* Responses the language model may give to the hypothesis prompt.
Responses ==
    { <<"O","d","d"," ","i","d","s">>,
      <<"i","d","s",","," ","o","d","d",".">>,
      <<"L","o","n","g","\n">> }

TwoDigits(n) == <<DigitChars[(n \div 10) + 1], DigitChars[(n % 10) + 1]>>

\* time.strftime("%H:%M:%S")
TimeStr(now) ==
    TwoDigits((now \div 3600) % 24) \o <<":">> \o
    TwoDigits((now \div 60) % 60) \o <<":">> \o TwoDigits(now % 60)

\* f"{hypothesis} [Unique variant {time_str}]"
UniqueVariant(hypothesis, now) ==
    hypothesis \o <<" ","[","U","n","i","q","u","e"," ",
                    "v","a","r","i","a","n","t"," ">> \o TimeStr(now) \o <<"]">>

GenIdle ==
    [pc |-> "idle", run_id |-> 0, max_attempts |-> 0, attempt |-> 0,
     calls |-> 0, hypothesis |-> <<>>, result |-> <<>>]

\* generate_hypothesis(sample_data, run_id, max_attempts) is called
GenStart(max_attempts) ==
    /\ gen.pc # "loop"
    /\ gen.run_id < MaxRuns
    /\ gen' = [pc |-> "loop", run_id |-> gen.run_id + 1,
               max_attempts |-> max_attempts, attempt |-> 0, calls |-> 0,
               hypothesis |-> <<>>, result |-> <<>>]
    /\ UNCHANGED <<hypotheses, hash_values, store_file, clock, notStoreVars>>

\* one pass of the loop whose response is new: it is added and returned
GenAttemptNew(response, outcome) ==
    /\ gen.pc = "loop"
    /\ gen.attempt < gen.max_attempts
    /\ LET hypothesis == Strip(response) IN
        /\ is_new_hypothesis(hash_values, hypothesis)
        /\ hypotheses' = AddedHypotheses(hypotheses, hypothesis, gen.run_id, clock)
        /\ hash_values' = AddedHashes(hash_values, hypothesis)
        /\ store_file' = _save_hypotheses(store_file, hypotheses', hash_values', outcome)
        /\ gen' = [gen EXCEPT !.pc = "returned", !.calls = @ + 1,
                              !.hypothesis = hypothesis, !.result = hypothesis]
    /\ UNCHANGED <<clock, notStoreVars>>

\* one pass of the loop whose response is a duplicate: the loop goes on
GenAttemptDuplicate(response) ==
    /\ gen.pc = "loop"
    /\ gen.attempt < gen.max_attempts
    /\ LET hypothesis == Strip(response) IN
        /\ ~is_new_hypothesis(hash_values, hypothesis)
        /\ gen' = [gen EXCEPT !.attempt = @ + 1, !.calls = @ + 1,
                              !.hypothesis = hypothesis]
    /\ UNCHANGED <<hypotheses, hash_values, store_file, clock, notStoreVars>>

\* a failing call that has truncated the persisted file before raising
GenGatewayFailsTruncating ==
    /\ gen.pc = "loop"
    /\ gen.attempt < gen.max_attempts
    /\ gen' = [gen EXCEPT !.pc = "raised", !.calls = @ + 1]
    /\ store_file' = CorruptFile
    /\ UNCHANGED <<hypotheses, hash_values, clock, notStoreVars>>

\* call_openai raises inside the loop: nothing catches it
GenGatewayFails ==
    /\ gen.pc = "loop"
    /\ gen.attempt < gen.max_attempts
    /\ gen' = [gen EXCEPT !.pc = "raised", !.calls = @ + 1]
    /\ UNCHANGED <<hypotheses, hash_values, store_file, clock, notStoreVars>>

\* the loop is exhausted: the last response gets the time suffix and is added
\* without a check
GenForceUnique(outcome) ==
    /\ gen.pc = "loop"
    /\ gen.attempt = gen.max_attempts
    /\ LET unique_hypothesis == UniqueVariant(gen.hypothesis, clock) IN
        /\ hypotheses' = AddedHypotheses(hypotheses, unique_hypothesis, gen.run_id, clock)
        /\ hash_values' = AddedHashes(hash_values, unique_hypothesis)
        /\ store_file' = _save_hypotheses(store_file, hypotheses', hash_values', outcome)
        /\ gen' = [gen EXCEPT !.pc = "returned", !.result = unique_hypothesis]
    /\ UNCHANGED <<clock, notStoreVars>>

\* a second passes
Tick ==
    /\ clock < MaxClock
    /\ clock' = clock + 1
    /\ UNCHANGED <<hypotheses, hash_values, store_file, gen, notStoreVars>>

(***************************************************************************)
(* The store's interface used directly: add_hypothesis calls followed by    *)
(* is_new_hypothesis calls on a stored text, on texts that differ from it   *)
(* in letter case, punctuation or word order only, and on other texts.      *)
(***************************************************************************)
MaxProbeStore == 2

ProbeTexts ==
    { <<"A","b"," ","c">>,
      <<"c",","," ","a","B">>,
      <<"a","b","c">> }

PunctuationChars == {"-"}

IsPunct(c) == ~IsAlnum(c) /\ ~IsSpace(c)

ProbeNone ==
    [pc |-> "none", text |-> <<>>, source |-> 0, edits |-> 0, is_new |-> TRUE]

\* the answer of is_new_hypothesis(text), for a text derived from the stored
\* hypothesis number source (0: from none)
Probed(text, source, edits) ==
    [pc |-> "probed", text |-> text, source |-> source, edits |-> edits,
     is_new |-> is_new_hypothesis(hash_values, text)]

FlipCase(text, k) ==
    [text EXCEPT ![k] = IF IsUpper(@) THEN ToLower(@) ELSE ToUpper(@)]

InsertAt(text, k, c) ==
    SubSeq(text, 1, k) \o <<c>> \o SubSeq(text, k + 1, Len(text))

RemoveAt(text, k) ==
    SubSeq(text, 1, k - 1) \o SubSeq(text, k + 1, Len(text))

SwapWords(words, k) ==
    [i \in DOMAIN words |->
        IF i = k THEN words[k + 1] ELSE IF i = k + 1 THEN words[k] ELSE words[i]]

\* add_hypothesis(hypothesis, run_id)
AddHypothesis(hypothesis, run_id, outcome) ==
    /\ run_id = Len(hypotheses) + 1
    /\ hypotheses' = AddedHypotheses(hypotheses, hypothesis, run_id, clock)
    /\ hash_values' = AddedHashes(hash_values, hypothesis)
    /\ store_file' = _save_hypotheses(store_file, hypotheses', hash_values', outcome)
    /\ probe' = ProbeNone
    /\ UNCHANGED <<clock, gen, notProbeVars>>

\* is_new_hypothesis on the text of a stored hypothesis
IsNewStored(i) ==
    /\ probe' = Probed(hypotheses[i].hypothesis, i, 0)
    /\ UNCHANGED <<storeVars, notProbeVars>>

\* is_new_hypothesis on a text that comes from no stored hypothesis
IsNewFresh(text) ==
    /\ probe' = Probed(text, 0, 0)
    /\ UNCHANGED <<storeVars, notProbeVars>>

\* ... on the probed text with the case of one letter changed
IsNewCaseChanged(k) ==
    /\ probe.source > 0 /\ probe.edits < MaxProbeEdits
    /\ IsAlpha(probe.text[k])
    /\ probe' = Probed(FlipCase(probe.text, k), probe.source, probe.edits + 1)
    /\ UNCHANGED <<storeVars, notProbeVars>>

\* ... with one punctuation character inserted
IsNewPunctInserted(k, c) ==
    /\ probe.source > 0 /\ probe.edits < MaxProbeEdits
    /\ probe' = Probed(InsertAt(probe.text, k, c), probe.source, probe.edits + 1)
    /\ UNCHANGED <<storeVars, notProbeVars>>

\* ... with one punctuation character removed
IsNewPunctRemoved(k) ==
    /\ probe.source > 0 /\ probe.edits < MaxProbeEdits
    /\ IsPunct(probe.text[k])
    /\ probe' = Probed(RemoveAt(probe.text, k), probe.source, probe.edits + 1)
    /\ UNCHANGED <<storeVars, notProbeVars>>

\* ... with two neighbouring words exchanged (the text is single-spaced, so
\* that nothing but the order of its words changes)
IsNewWordsSwapped(k) ==
    /\ probe.source > 0 /\ probe.edits < MaxProbeEdits
    /\ probe.text = Join(Split(probe.text))
    /\ k < Len(Split(probe.text))
    /\ probe' = Probed(Join(SwapWords(Split(probe.text), k)),
                       probe.source, probe.edits + 1)
    /\ UNCHANGED <<storeVars, notProbeVars>>

ProbeNext ==
    \/ \E t \in ProbeTexts, r \in 1..MaxProbeStore, o \in SaveOutcomes :
          AddHypothesis(t, r, o)
    \/ \E i \in DOMAIN hypotheses : IsNewStored(i)
    \/ \E t \in ProbeTexts : IsNewFresh(t)
    \/ \E k \in DOMAIN probe.text : IsNewCaseChanged(k)
    \/ \E k \in 0..Len(probe.text), c \in PunctuationChars : IsNewPunctInserted(k, c)
    \/ \E k \in DOMAIN probe.text : IsNewPunctRemoved(k)
    \/ \E k \in DOMAIN probe.text : IsNewWordsSwapped(k)

(***************************************************************************)
(* call_openai under @retry(stop=stop_after_attempt(3),                     *)
(* wait=wait_exponential(multiplier=1, max=10))                             *)
(***************************************************************************)
\* stop_after_attempt(3)
StopAfterAttempt == 3

\* wait_exponential(multiplier=1, max=10)
WaitMultiplier == 1
WaitMax == 10

\* Texts the completion API may answer with; the empty string is one of them.
GatewayTexts == {"", "len(fname) > 8", "Files with long names"}

RECURSIVE Pow2(_)
Pow2(n) == IF n = 0 THEN 1 ELSE 2 * Pow2(n - 1)

Min(a, b) == IF a <= b THEN a ELSE b
Max(a, b) == IF a >= b THEN a ELSE b

\* the wait after the failed attempt number attempt_number
wait_exponential(attempt_number) ==
    Max(0, Min(WaitMultiplier * Pow2(attempt_number - 1), WaitMax))

\* a stop one attempt late
stop_after_attempt_late(attempt_number) == attempt_number >= StopAfterAttempt + 1

\* stop_after_attempt(3): no retry once the attempt number reaches 3
stop_after_attempt(attempt_number) == attempt_number >= StopAfterAttempt

\* An attempt of a call is the record of what the API did with it.
FailedAttempt == [ok |-> FALSE, text |-> ""]
GoodAttempt(text) == [ok |-> TRUE, text |-> text]

GwIdle == [pc |-> "idle", attempts |-> <<>>, slept |-> 0, result |-> ""]

\* call_openai(prompt, system_prompt) is called: the first attempt starts
GwCall ==
    /\ gw.pc \in {"idle", "returned", "raised"}
    /\ Len(gw_done) < MaxGatewayCalls
    /\ gw' = [pc |-> "attempting", attempts |-> <<>>, slept |-> 0, result |-> ""]
    /\ UNCHANGED <<gw_done, notGwVars>>

\* the API answers: the function returns the message content
GwAttemptSucceeds(text) ==
    /\ gw.pc = "attempting"
    /\ gw' = [gw EXCEPT !.pc = "returned",
                        !.attempts = Append(@, GoodAttempt(text)),
                        !.result = text]
    /\ gw_done' = Append(gw_done, [raised |-> FALSE, text |-> text])
    /\ UNCHANGED notGwVars

\* the API raises: the error is logged and raised again, and the retry policy
\* stops (RetryError reaches the caller) or sleeps before the next attempt
GwAttemptFails ==
    /\ gw.pc = "attempting"
    /\ LET attempt_number == Len(gw.attempts) + 1 IN
        IF stop_after_attempt(attempt_number)
        THEN /\ gw' = [gw EXCEPT !.pc = "raised",
                                 !.attempts = Append(@, FailedAttempt)]
             /\ gw_done' = Append(gw_done, [raised |-> TRUE, text |-> ""])
        ELSE /\ gw' = [gw EXCEPT !.pc = "sleeping",
                                 !.attempts = Append(@, FailedAttempt),
                                 !.slept = @ + wait_exponential(attempt_number)]
             /\ UNCHANGED gw_done
    /\ UNCHANGED notGwVars

\* the sleep ends: the next attempt starts
GwRetry ==
    /\ gw.pc = "sleeping"
    /\ gw' = [gw EXCEPT !.pc = "attempting"]
    /\ UNCHANGED <<gw_done, notGwVars>>

GwNext ==
    \/ GwCall
    \/ \E t \in GatewayTexts : GwAttemptSucceeds(t)
    \/ GwAttemptFails
    \/ GwRetry

(***************************************************************************)
(* Python expressions over fname and their evaluation by eval().            *)
(*                                                                          *)
(* An expression is its source text. What eval() does with a text is given  *)
(* for the texts below (everything else does not parse): the names it loads *)
(* in the scope of the expression itself (looked up in the locals, the      *)
(* globals and the builtins), the names it loads inside a generator body    *)
(* (a scope of its own, looked up in the globals and the builtins only: the *)
(* locals passed to eval() are not visible there), and its value.           *)
(***************************************************************************)
\* the dummy filenames of create_filter_script, in its order
test_filenames ==
    << <<"s","a","m","p","l","e",".","t","x","t">>,
       <<"0",".","t","x","t">>,
       <<"a",".","t","x","t">>,
       <<>>,
       <<"f","i","l","e"," ","w","i","t","h"," ","s","p","a","c","e","s",
         ".","t","x","t">>,
       <<"f","i","l","e","-","w","i","t","h","-","h","y","p","h","e","n",
         ".","t","x","t">>,
       <<"A","L","L","_","C","A","P","S",".","T","X","T">>,
       <<"1","2","3","4","5",".","d","a","t">>,
       <<"v","e","r","y","_","v","e","r","y","_","l","o","n","g","_","f",
         "i","l","e","n","a","m","e","_","w","i","t","h","_","u","n","d",
         "e","r","s","c","o","r","e","s",".","l","o","g">> >>

\* expressions a model may answer with
Answer ==
      \* len(fname) > 8
    [ Len8 |->
          <<"l","e","n","(","f","n","a","m","e",")"," ",">"," ","8">>,
      \* ord(fname[0]) > 64 if fname else False
      Ord |->
          <<"o","r","d","(","f","n","a","m","e","[","0","]",")"," ",">"," ",
            "6","4"," ","i","f"," ","f","n","a","m","e"," ","e","l","s","e",
            " ","F","a","l","s","e">>,
      \* len(__import__('os').getcwd()) > 0
      Import |->
          <<"l","e","n","(","_","_","i","m","p","o","r","t","_","_","(","'",
            "o","s","'",")",".","g","e","t","c","w","d","(",")",")"," ",">",
            " ","0">>,
      \* os.path.exists(fname)
      OsPath |->
          <<"o","s",".","p","a","t","h",".","e","x","i","s","t","s","(","f",
            "n","a","m","e",")">>,
      \* len(open(fname).read()) > 0
      Open |->
          <<"l","e","n","(","o","p","e","n","(","f","n","a","m","e",")",".",
            "r","e","a","d","(",")",")"," ",">"," ","0">>,
      \* len(fname) % (len(fname) - 6) == 0
      Mod6 |->
          <<"l","e","n","(","f","n","a","m","e",")"," ","%"," ","(","l","e",
            "n","(","f","n","a","m","e",")"," ","-"," ","6",")"," ","=","=",
            " ","0">>,
      \* int(fname.split('.')[0]) % 2 == 0
      IntStem |->
          <<"i","n","t","(","f","n","a","m","e",".","s","p","l","i","t","(",
            "'",".","'",")","[","0","]",")"," ","%"," ","2"," ","=","="," ",
            "0">>,
      \* 'ERROR: ' + fname
      ErrorText |->
          <<"'","E","R","R","O","R",":"," ","'"," ","+"," ","f","n","a","m",
            "e">>,
      \* any(c.isdigit() for char in fname)
      CharLoop |->
          <<"a","n","y","(","c",".","i","s","d","i","g","i","t","(",")"," ",
            "f","o","r"," ","c","h","a","r"," ","i","n"," ","f","n","a","m",
            "e",")">>,
      \* len(fname*2) > 8
      Times |->
          <<"l","e","n","(","f","n","a","m","e","*","2",")"," ",">"," ",
            "8">> ]

\* the expressions of the fallback ladder (its 'len(fname) > 8' is Answer.Len8)
Ladder ==
      \* int(fname.split('.')[0]) % 2 == 0 if fname.split('.')[0].isdigit() else False
    [ Even |->
          <<"i","n","t","(","f","n","a","m","e",".","s","p","l","i","t","(",
            "'",".","'",")","[","0","]",")"," ","%"," ","2"," ","=","="," ",
            "0"," ","i","f"," ","f","n","a","m","e",".","s","p","l","i","t",
            "(","'",".","'",")","[","0","]",".","i","s","d","i","g","i","t",
            "(",")"," ","e","l","s","e"," ","F","a","l","s","e">>,
      \* int(fname.split('.')[0]) % 2 != 0 if fname.split('.')[0].isdigit() else False
      Odd |->
          <<"i","n","t","(","f","n","a","m","e",".","s","p","l","i","t","(",
            "'",".","'",")","[","0","]",")"," ","%"," ","2"," ","!","="," ",
            "0"," ","i","f"," ","f","n","a","m","e",".","s","p","l","i","t",
            "(","'",".","'",")","[","0","]",".","i","s","d","i","g","i","t",
            "(",")"," ","e","l","s","e"," ","F","a","l","s","e">>,
      \* any(not c.isalnum() and not c.isspace() for c in fname)
      Special |->
          <<"a","n","y","(","n","o","t"," ","c",".","i","s","a","l","n","u",
            "m","(",")"," ","a","n","d"," ","n","o","t"," ","c",".","i","s",
            "s","p","a","c","e","(",")"," ","f","o","r"," ","c"," ","i","n",
            " ","f","n","a","m","e",")">>,
      \* len(fname) > 10
      Len10 |->
          <<"l","e","n","(","f","n","a","m","e",")"," ",">"," ","1","0">>,
      \* len(fname) < 8
      Short |->
          <<"l","e","n","(","f","n","a","m","e",")"," ","<"," ","8">>,
      \* any(c.isdigit() for c in fname)
      Digit |->
          <<"a","n","y","(","c",".","i","s","d","i","g","i","t","(",")"," ",
            "f","o","r"," ","c"," ","i","n"," ","f","n","a","m","e",")">>,
      \* any(fname.count(c) > 1 for c in set(fname) if c.isalpha())
      Repeat1 |->
          <<"a","n","y","(","f","n","a","m","e",".","c","o","u","n","t","(",
            "c",")"," ",">"," ","1"," ","f","o","r"," ","c"," ","i","n"," ",
            "s","e","t","(","f","n","a","m","e",")"," ","i","f"," ","c",".",
            "i","s","a","l","p","h","a","(",")",")">>,
      \* any(fname.count(c) > 2 for c in set(fname) if c.isalpha())
      Repeat2 |->
          <<"a","n","y","(","f","n","a","m","e",".","c","o","u","n","t","(",
            "c",")"," ",">"," ","2"," ","f","o","r"," ","c"," ","i","n"," ",
            "s","e","t","(","f","n","a","m","e",")"," ","i","f"," ","c",".",
            "i","s","a","l","p","h","a","(",")",")">>,
      \* sum(1 for c in fname if c.isupper()) > sum(1 for c in fname if c.islower())
      Upper |->
          <<"s","u","m","(","1"," ","f","o","r"," ","c"," ","i","n"," ","f",
            "n","a","m","e"," ","i","f"," ","c",".","i","s","u","p","p","e",
            "r","(",")",")"," ",">"," ","s","u","m","(","1"," ","f","o","r",
            " ","c"," ","i","n"," ","f","n","a","m","e"," ","i","f"," ","c",
            ".","i","s","l","o","w","e","r","(",")",")">>,
      \* sum(1 for c in fname if c.islower()) > sum(1 for c in fname if c.isupper()) * 2
      Lower |->
          <<"s","u","m","(","1"," ","f","o","r"," ","c"," ","i","n"," ","f",
            "n","a","m","e"," ","i","f"," ","c",".","i","s","l","o","w","e",
            "r","(",")",")"," ",">"," ","s","u","m","(","1"," ","f","o","r",
            " ","c"," ","i","n"," ","f","n","a","m","e"," ","i","f"," ","c",
            ".","i","s","u","p","p","e","r","(",")",")"," ","*"," ","2">>,
      \* any(c.isupper() for c in fname) and any(c.islower() for c in fname)
      Case |->
          <<"a","n","y","(","c",".","i","s","u","p","p","e","r","(",")"," ",
            "f","o","r"," ","c"," ","i","n"," ","f","n","a","m","e",")"," ",
            "a","n","d"," ","a","n","y","(","c",".","i","s","l","o","w","e",
            "r","(",")"," ","f","o","r"," ","c"," ","i","n"," ","f","n","a",
            "m","e",")">>,
      \* sum(1 for c in fname.lower() if c in 'aeiou') > len(fname) // 4
      Vowel |->
          <<"s","u","m","(","1"," ","f","o","r"," ","c"," ","i","n"," ","f",
            "n","a","m","e",".","l","o","w","e","r","(",")"," ","i","f"," ",
            "c"," ","i","n"," ","'","a","e","i","o","u","'",")"," ",">"," ",
            "l","e","n","(","f","n","a","m","e",")"," ","/","/"," ","4">>,
      \* len([c for c in fname.lower() if c.isalpha() and c not in 'aeiou']) > len([c for c in fname.lower() if c in 'aeiou']) and any(c in 'aeiou' for c in fname.lower())
      Consonant |->
          <<"l","e","n","(","[","c"," ","f","o","r"," ","c"," ","i","n"," ",
            "f","n","a","m","e",".","l","o","w","e","r","(",")"," ","i","f",
            " ","c",".","i","s","a","l","p","h","a","(",")"," ","a","n","d",
            " ","c"," ","n","o","t"," ","i","n"," ","'","a","e","i","o","u",
            "'","]",")"," ",">"," ","l","e","n","(","[","c"," ","f","o","r",
            " ","c"," ","i","n"," ","f","n","a","m","e",".","l","o","w","e",
            "r","(",")"," ","i","f"," ","c"," ","i","n"," ","'","a","e","i",
            "o","u","'","]",")"," ","a","n","d"," ","a","n","y","(","c"," ",
            "i","n"," ","'","a","e","i","o","u","'"," ","f","o","r"," ","c",
            " ","i","n"," ","f","n","a","m","e",".","l","o","w","e","r","(",
            ")",")">>,
      \* sum(1 for c in fname if not c.isalnum() and not c.isspace()) > 1
      RatioChar |->
          <<"s","u","m","(","1"," ","f","o","r"," ","c"," ","i","n"," ","f",
            "n","a","m","e"," ","i","f"," ","n","o","t"," ","c",".","i","s",
            "a","l","n","u","m","(",")"," ","a","n","d"," ","n","o","t"," ",
            "c",".","i","s","s","p","a","c","e","(",")",")"," ",">"," ",
            "1">>,
      \* sum(1 for c in fname if not c.isalnum() and not c.isspace()) > len(fname) // 4
      Punct |->
          <<"s","u","m","(","1"," ","f","o","r"," ","c"," ","i","n"," ","f",
            "n","a","m","e"," ","i","f"," ","n","o","t"," ","c",".","i","s",
            "a","l","n","u","m","(",")"," ","a","n","d"," ","n","o","t"," ",
            "c",".","i","s","s","p","a","c","e","(",")",")"," ",">"," ","l",
            "e","n","(","f","n","a","m","e",")"," ","/","/"," ","4">>,
      \* len(fname) > len(set(fname))
      Content |->
          <<"l","e","n","(","f","n","a","m","e",")"," ",">"," ","l","e","n",
            "(","s","e","t","(","f","n","a","m","e",")",")">>,
      \* not fname.replace('.', '').isalnum()
      Default |->
          <<"n","o","t"," ","f","n","a","m","e",".","r","e","p","l","a","c",
            "e","(","'",".","'",","," ","'","'",")",".","i","s","a","l","n",
            "u","m","(",")">> ]

\* "pat in text"
Contains(text, pat) ==
    \E i \in 0..(Len(text) - Len(pat)) : SubSeq(text, i + 1, i + Len(pat)) = pat

\* text.startswith(pat)
StartsWith(text, pat) ==
    Len(text) >= Len(pat) /\ SubSeq(text, 1, Len(pat)) = pat

\* the number of characters of text that are in chars
CountIn(text, chars) == Cardinality({i \in DOMAIN text : text[i] \in chars})

\* text.count(c)
CountChar(text, c) == CountIn(text, {c})

\* the characters of text that are upper case, lower case, vowels, consonants,
\* neither alphanumeric nor white space
CharsOf(class, text) ==
    CASE class = "upper" -> {c \in Range(text) : IsUpper(c)}
      [] class = "lower" -> {c \in Range(text) : IsLower(c)}
      [] class = "vowel" -> {c \in Range(text) : c \in {"a", "e", "i", "o", "u"}}
      [] class = "consonant" ->
            {c \in Range(text) : IsAlpha(c) /\ c \notin {"a", "e", "i", "o", "u"}}
      [] class = "special" -> {c \in Range(text) : ~IsAlnum(c) /\ ~IsSpace(c)}

\* the position of the first c in text, Len(text) + 1 if there is none
FirstIndex(text, c) ==
    IF \E i \in DOMAIN text : text[i] = c
    THEN CHOOSE i \in DOMAIN text :
            text[i] = c /\ \A j \in 1..(i - 1) : text[j] # c
    ELSE Len(text) + 1

\* fname.split('.')[0]
SplitDot0(fname) == SubSeq(fname, 1, FirstIndex(fname, ".") - 1)

\* s.isdigit(), s.isalnum()
IsDigitStr(s) == s # <<>> /\ \A i \in DOMAIN s : IsDigit(s[i])
IsAlnumStr(s) == s # <<>> /\ \A i \in DOMAIN s : IsAlnum(s[i])

RECURSIVE DigitsValue(_)
DigitsValue(s) ==
    IF s = <<>> THEN 0
    ELSE 10 * DigitsValue(SubSeq(s, 1, Len(s) - 1))
         + (IndexOf(DigitChars, s[Len(s)]) - 1)

\* int(s): surrounding whitespace and one sign are accepted (digit groups
\* separated by underscores, which int() accepts too, are in no modelled name)
Unsigned(s) == IF s # <<>> /\ s[1] \in {"+", "-"} THEN Tail(s) ELSE s
IntParsable(s) == IsDigitStr(Unsigned(Strip(s)))
IntValue(s) ==
    IF Strip(s)[1] = "-" THEN 0 - DigitsValue(Unsigned(Strip(s)))
    ELSE DigitsValue(Unsigned(Strip(s)))

\* Python's a % b (the sign of the result is that of b)
PyMod(a, b) == IF b > 0 THEN a % b ELSE 0 - ((0 - a) % (0 - b))

\* What an evaluation produces: a value (its type, its truth value, and for
\* a string whether it starts with "ERROR:") or an exception.
BoolValue(b) ==
    [raised |-> FALSE, exc |-> "", type |-> "bool", truthy |-> b,
     error_prefix |-> FALSE]

StrValue(s) ==
    [raised |-> FALSE, exc |-> "", type |-> "str", truthy |-> s # <<>>,
     error_prefix |-> StartsWith(s, <<"E","R","R","O","R",":">>)]

Raise(exc) ==
    [raised |-> TRUE, exc |-> exc, type |-> "", truthy |-> FALSE,
     error_prefix |-> FALSE]

\* the texts that parse
KnownExpressions ==
    {Answer.Len8, Answer.Ord, Answer.Import, Answer.OsPath, Answer.Open, Answer.Mod6, Answer.IntStem, Answer.ErrorText,
     Answer.CharLoop, Answer.Times, Ladder.Even, Ladder.Odd, Ladder.Special, Ladder.Len10, Ladder.Short, Ladder.Digit,
     Ladder.Repeat1, Ladder.Repeat2, Ladder.Upper, Ladder.Lower, Ladder.Case, Ladder.Vowel, Ladder.Consonant,
     Ladder.RatioChar, Ladder.Punct, Ladder.Content, Ladder.Default}

\* the names the expression loads in its own scope when evaluated on fname
TopNames(expr, fname) ==
    CASE expr = Answer.Len8 -> {"len", "fname"}
      [] expr = Answer.Ord -> IF fname # <<>> THEN {"fname", "ord"} ELSE {"fname"}
      [] expr = Answer.Import -> {"len", "__import__"}
      [] expr = Answer.OsPath -> {"os"}
      [] expr = Answer.Open -> {"len", "open"}
      [] expr = Answer.Mod6 -> {"len", "fname"}
      [] expr = Answer.IntStem -> {"int", "fname"}
      [] expr = Answer.ErrorText -> {"fname"}
      [] expr = Answer.CharLoop -> {"any", "fname"}
      [] expr = Answer.Times -> {"len", "fname"}
      [] expr \in {Ladder.Even, Ladder.Odd} ->
            IF IsDigitStr(SplitDot0(fname)) THEN {"fname", "int"} ELSE {"fname"}
      [] expr \in {Ladder.Special, Ladder.Digit, Ladder.Case} -> {"any", "fname"}
      [] expr \in {Ladder.Len10, Ladder.Short} -> {"len", "fname"}
      [] expr \in {Ladder.Repeat1, Ladder.Repeat2} -> {"any", "set", "fname"}
      [] expr \in {Ladder.Upper, Ladder.Lower, Ladder.RatioChar} -> {"sum", "fname"}
      [] expr \in {Ladder.Vowel, Ladder.Punct} -> {"sum", "len", "fname"}
      [] expr = Ladder.Consonant -> {"len", "any", "fname"}
      [] expr = Ladder.Content -> {"len", "set", "fname"}
      [] expr = Ladder.Default -> {"fname"}
      [] OTHER -> {}

\* the names the expression loads inside a generator body when evaluated on
\* fname, its loop variable apart (none when the body never runs)
NestedNames(expr, fname) ==
    CASE expr = Answer.CharLoop -> IF fname # <<>> THEN {"c"} ELSE {}
      [] expr \in {Ladder.Repeat1, Ladder.Repeat2} ->
            IF \E i \in DOMAIN fname : IsAlpha(fname[i]) THEN {"fname"} ELSE {}
      [] OTHER -> {}

\* the value of the expression on fname once its names are resolved
Value(expr, fname) ==
    CASE expr = Answer.Len8 -> BoolValue(Len(fname) > 8)
      [] expr = Answer.Ord ->
            BoolValue(fname # <<>> /\ (IsAlpha(fname[1]) \/ fname[1] = "_"))
      [] expr = Answer.Import -> BoolValue(TRUE)
      [] expr = Answer.OsPath -> BoolValue(TRUE)
      [] expr = Answer.Open -> Raise("FileNotFoundError")
      [] expr = Answer.Mod6 ->
            IF Len(fname) = 6 THEN Raise("ZeroDivisionError")
            ELSE BoolValue(PyMod(Len(fname), Len(fname) - 6) = 0)
      [] expr = Answer.IntStem ->
            IF IntParsable(SplitDot0(fname))
            THEN BoolValue(IntValue(SplitDot0(fname)) % 2 = 0)
            ELSE Raise("ValueError")
      [] expr = Answer.ErrorText -> StrValue(<<"E","R","R","O","R",":"," ">> \o fname)
      [] expr = Answer.CharLoop -> BoolValue(FALSE)
      [] expr = Answer.Times -> BoolValue(2 * Len(fname) > 8)
      [] expr = Ladder.Even ->
            BoolValue(IsDigitStr(SplitDot0(fname))
                      /\ DigitsValue(SplitDot0(fname)) % 2 = 0)
      [] expr = Ladder.Odd ->
            BoolValue(IsDigitStr(SplitDot0(fname))
                      /\ DigitsValue(SplitDot0(fname)) % 2 # 0)
      [] expr = Ladder.Special -> BoolValue(CharsOf("special", fname) # {})
      [] expr = Ladder.Len10 -> BoolValue(Len(fname) > 10)
      [] expr = Ladder.Short -> BoolValue(Len(fname) < 8)
      [] expr = Ladder.Digit -> BoolValue(\E i \in DOMAIN fname : IsDigit(fname[i]))
      [] expr = Ladder.Repeat1 ->
            BoolValue(\E i \in DOMAIN fname :
                         IsAlpha(fname[i]) /\ CountChar(fname, fname[i]) > 1)
      [] expr = Ladder.Repeat2 ->
            BoolValue(\E i \in DOMAIN fname :
                         IsAlpha(fname[i]) /\ CountChar(fname, fname[i]) > 2)
      [] expr = Ladder.Upper -> BoolValue(CountIn(fname, CharsOf("upper", fname)) > CountIn(fname, CharsOf("lower", fname)))
      [] expr = Ladder.Lower ->
            BoolValue(CountIn(fname, CharsOf("lower", fname)) > CountIn(fname, CharsOf("upper", fname)) * 2)
      [] expr = Ladder.Case ->
            BoolValue(CountIn(fname, CharsOf("upper", fname)) > 0 /\ CountIn(fname, CharsOf("lower", fname)) > 0)
      [] expr = Ladder.Vowel ->
            BoolValue(CountIn(Lower(fname), CharsOf("vowel", Lower(fname))) > Len(fname) \div 4)
      [] expr = Ladder.Consonant ->
            BoolValue(/\ CountIn(Lower(fname), CharsOf("consonant", Lower(fname)))
                            > CountIn(Lower(fname), CharsOf("vowel", Lower(fname)))
                      /\ CountIn(Lower(fname), CharsOf("vowel", Lower(fname))) > 0)
      [] expr = Ladder.RatioChar -> BoolValue(CountIn(fname, CharsOf("special", fname)) > 1)
      [] expr = Ladder.Punct -> BoolValue(CountIn(fname, CharsOf("special", fname)) > Len(fname) \div 4)
      [] expr = Ladder.Content -> BoolValue(Len(fname) > Cardinality(Range(fname)))
      [] expr = Ladder.Default ->
            BoolValue(~IsAlnumStr(SelectSeq(fname, LAMBDA c : c # ".")))
      [] OTHER -> Raise("SyntaxError")

\* dir(str) without the names that start with "__"
str_methods ==
    {"capitalize", "casefold", "center", "count", "encode", "endswith",
     "expandtabs", "find", "format", "format_map", "index", "isalnum",
     "isalpha", "isascii", "isdecimal", "isdigit", "isidentifier", "islower",
     "isnumeric", "isprintable", "isspace", "istitle", "isupper", "join",
     "ljust", "lower", "lstrip", "maketrans", "partition", "removeprefix",
     "removesuffix", "replace", "rfind", "rindex", "rjust", "rpartition",
     "rsplit", "rstrip", "split", "splitlines", "startswith", "strip",
     "swapcase", "title", "translate", "upper", "zfill"}

\* the names of filter_data's safe_builtins
safe_builtins ==
    {"True", "False", "any", "all", "len", "sum", "int", "float", "bool", "str",
     "set", "list", "dict", "tuple", "max", "min", "enumerate", "sorted",
     "range", "zip", "filter", "map", "isinstance", "type"} \cup str_methods

\* the names of Python's builtins module, which eval() adds to a globals
\* dictionary that has no "__builtins__" key (those the expressions can name)
python_builtins ==
    {"True", "False", "any", "all", "len", "sum", "int", "float", "bool", "str",
     "set", "list", "dict", "tuple", "max", "min", "enumerate", "sorted",
     "range", "zip", "filter", "map", "isinstance", "type",
     "ord", "chr", "abs", "round", "open", "__import__", "eval", "exec",
     "getattr", "hasattr", "print", "input", "compile", "globals", "locals"}

\* eval(expr, {"__builtins__": builtins}, {"fname": fname})
Eval(expr, builtins, fname) ==
    IF expr \notin KnownExpressions THEN Raise("SyntaxError")
    ELSE IF ~(TopNames(expr, fname) \subseteq builtins \cup {"fname"})
         THEN Raise("NameError")
    ELSE IF ~(NestedNames(expr, fname) \subseteq builtins)
         THEN Raise("NameError")
    ELSE Value(expr, fname)

(***************************************************************************)
(* create_filter_script                                                     *)
(***************************************************************************)
banned_modules ==
    << <<"s","t","r","i","n","g">>,
       <<"r","e">>,
       <<"m","a","t","h">>,
       <<"o","s">>,
       <<"s","y","s">>,
       <<"i","o">>,
       <<"p","a","t","h","l","i","b">>,
       <<"g","l","o","b">> >>

banned_functions ==
    << <<"o","p","e","n">>,
       <<"r","e","a","d">>,
       <<"r","e","a","d","l","i","n","e","s">>,
       <<"r","e","a","d","l","i","n","e">>,
       <<"f","i","l","e">> >>

generator_patterns ==
    << <<"a","n","y","(">>,
       <<"a","l","l","(">>,
       <<"s","u","m","(">>,
       <<"[","x"," ","f","o","r">>,
       <<"[","c"," ","f","o","r">>,
       <<"[","c","h","a","r"," ","f","o","r">>,
       <<"[","l","e","t","t","e","r"," ","f","o","r">> >>

\* ['*=', '* ', ' *', '*.']
spaced_star_patterns ==
    << <<"*","=">>, <<"*"," ">>, <<" ","*">>, <<"*",".">> >>

\* the character U+0060, which a string of this language cannot hold
Backtick == "BACKTICK"

\* the loop variables the generator heuristic knows: ' for X in ' and 'X ='
generator_names ==
    << [loop |-> <<" ","f","o","r"," ","c","h","a","r"," ","i","n"," ">>,
        assigned |-> <<"c","h","a","r"," ","=">>],
       [loop |-> <<" ","f","o","r"," ","i","t","e","m"," ","i","n"," ">>,
        assigned |-> <<"i","t","e","m"," ","=">>],
       [loop |-> <<" ","f","o","r"," ","f","i","l","e"," ","i","n"," ">>,
        assigned |-> <<"f","i","l","e"," ","=">>] >>

\* the expression taken from the response: stripped, and one pair of
\* surrounding backticks removed
CleanExpression(response) ==
    LET expression == Strip(response) IN
    IF expression # <<>> /\ expression[1] = Backtick
       /\ expression[Len(expression)] = Backtick
    THEN SubSeq(expression, 2, Len(expression) - 1)
    ELSE expression

\* the check for "char*3": what it raises ("" when it raises nothing)
StarCheck(expression) ==
    IF ~Contains(expression, <<"*">>)
       \/ \E i \in DOMAIN spaced_star_patterns :
             Contains(expression, spaced_star_patterns[i])
    THEN ""
    ELSE LET first == FirstIndex(expression, "*")
             before == SubSeq(expression, 1, first - 1)
             rest == SubSeq(expression, first + 1, Len(expression))
             after == SubSeq(rest, 1, FirstIndex(rest, "*") - 1)
         IN  IF before = <<>> THEN "IndexError"
             ELSE IF IsAlpha(before[Len(before)]) THEN "SyntaxError"
             ELSE IF after = <<>> THEN "IndexError"
             ELSE IF IsAlpha(after[1]) THEN "SyntaxError"
             ELSE ""

\* the static checks that come before the test evaluations: what they raise
\* ("" when they raise nothing)
ScreeningError(expression) ==
    IF \E i \in DOMAIN banned_modules :
          Contains(expression, banned_modules[i] \o <<".">>)
    THEN "NameError"
    ELSE IF \E i \in DOMAIN banned_functions :
               Contains(expression, banned_functions[i] \o <<"(">>)
    THEN "ValueError"
    ELSE IF StarCheck(expression) # "" THEN StarCheck(expression)
    ELSE IF /\ \E i \in DOMAIN generator_patterns :
                  Contains(expression, generator_patterns[i])
            /\ \E i \in DOMAIN generator_names :
                  /\ Contains(expression, generator_names[i].loop)
                  /\ ~Contains(expression, generator_names[i].assigned)
    THEN "NameError"
    ELSE ""

\* the builtins of safe_test_eval: eval(expr, {}, {"fname": test_name}) gets
\* Python's own builtins
validation_builtins == python_builtins

\* the builtins of safe_eval in filter_data
production_builtins == safe_builtins

\* safe_test_eval over test_filenames: the exception of the first dummy
\* filename that fails ("" when none fails)
TestError(expression, builtins) ==
    IF \E i \in DOMAIN test_filenames : Eval(expression, builtins, test_filenames[i]).raised
    THEN LET first == CHOOSE i \in DOMAIN test_filenames :
                 /\ Eval(expression, builtins, test_filenames[i]).raised
                 /\ \A j \in 1..(i - 1) :
                       ~Eval(expression, builtins, test_filenames[j]).raised
         IN  Eval(expression, builtins, test_filenames[first]).exc
    ELSE ""

\* the exception the validation ends with ("" when the expression passes)
ValidationError(expression) ==
    IF ScreeningError(expression) # "" THEN ScreeningError(expression)
    ELSE TestError(expression, validation_builtins)

\* the names the test evaluations resolved while validating
NamesReached(expression) ==
    IF ScreeningError(expression) # "" THEN {}
    ELSE UNION {TopNames(expression, test_filenames[i])
                    \cup NestedNames(expression, test_filenames[i]) :
                i \in {j \in DOMAIN test_filenames :
                         ~Eval(expression, validation_builtins, test_filenames[j]).raised}}

\* the keywords the fallback ladder looks for
Keyword ==
      \* even
    [ even |->
          <<"e","v","e","n">>,
      \* odd
      odd |->
          <<"o","d","d">>,
      \* special character
      special_character |->
          <<"s","p","e","c","i","a","l"," ","c","h","a","r","a","c","t","e",
            "r">>,
      \* non-alpha
      non_alpha |->
          <<"n","o","n","-","a","l","p","h","a">>,
      \* length
      length |->
          <<"l","e","n","g","t","h">>,
      \* line
      line |->
          <<"l","i","n","e">>,
      \* long
      long |->
          <<"l","o","n","g">>,
      \* short
      short |->
          <<"s","h","o","r","t">>,
      \* number
      number |->
          <<"n","u","m","b","e","r">>,
      \* digit
      digit |->
          <<"d","i","g","i","t">>,
      \* repeated
      repeated |->
          <<"r","e","p","e","a","t","e","d">>,
      \* repeating
      repeating |->
          <<"r","e","p","e","a","t","i","n","g">>,
      \* repetition
      repetition |->
          <<"r","e","p","e","t","i","t","i","o","n">>,
      \* character
      character |->
          <<"c","h","a","r","a","c","t","e","r">>,
      \* letter
      letter |->
          <<"l","e","t","t","e","r">>,
      \* word
      word |->
          <<"w","o","r","d">>,
      \* phrase
      phrase |->
          <<"p","h","r","a","s","e">>,
      \* uppercase
      uppercase |->
          <<"u","p","p","e","r","c","a","s","e">>,
      \* lowercase
      lowercase |->
          <<"l","o","w","e","r","c","a","s","e">>,
      \* case
      case |->
          <<"c","a","s","e">>,
      \* vowel
      vowel |->
          <<"v","o","w","e","l">>,
      \* consonant
      consonant |->
          <<"c","o","n","s","o","n","a","n","t">>,
      \* ratio
      ratio |->
          <<"r","a","t","i","o">>,
      \* frequency
      frequency |->
          <<"f","r","e","q","u","e","n","c","y">>,
      \* special
      special |->
          <<"s","p","e","c","i","a","l">>,
      \* punctuation
      punctuation |->
          <<"p","u","n","c","t","u","a","t","i","o","n">>,
      \* content
      content |->
          <<"c","o","n","t","e","n","t">> ]

\* a ladder that tries the number rung first
FallbackNumberFirst(hypothesis) ==
    LET h == Lower(hypothesis) IN
    IF Contains(h, Keyword.number) \/ Contains(h, Keyword.digit) THEN Ladder.Digit
    ELSE IF Contains(h, Keyword.even) THEN Ladder.Even
    ELSE IF Contains(h, Keyword.odd) THEN Ladder.Odd
    ELSE IF Contains(h, Keyword.special_character) \/ Contains(h, Keyword.non_alpha) THEN Ladder.Special
    ELSE IF Contains(h, Keyword.length) /\ Contains(h, Keyword.line) THEN Answer.Len8
    ELSE IF Contains(h, Keyword.length) \/ Contains(h, Keyword.long) THEN Ladder.Len10
    ELSE IF Contains(h, Keyword.short) THEN Ladder.Short
    ELSE IF Contains(h, Keyword.number) \/ Contains(h, Keyword.digit) THEN Ladder.Digit
    ELSE IF Contains(h, Keyword.repeated) \/ Contains(h, Keyword.repeating)
            \/ Contains(h, Keyword.repetition)
    THEN IF Contains(h, Keyword.character) \/ Contains(h, Keyword.letter) THEN Ladder.Repeat1
         ELSE IF Contains(h, Keyword.word) \/ Contains(h, Keyword.phrase) THEN Ladder.Repeat2
         ELSE Ladder.Repeat1
    ELSE IF Contains(h, Keyword.uppercase) THEN Ladder.Upper
    ELSE IF Contains(h, Keyword.lowercase) THEN Ladder.Lower
    ELSE IF Contains(h, Keyword.case) THEN Ladder.Case
    ELSE IF Contains(h, Keyword.vowel) THEN Ladder.Vowel
    ELSE IF Contains(h, Keyword.consonant) THEN Ladder.Consonant
    ELSE IF Contains(h, Keyword.ratio) \/ Contains(h, Keyword.frequency)
    THEN IF Contains(h, Keyword.character) \/ Contains(h, Keyword.special) THEN Ladder.RatioChar
         ELSE Ladder.Consonant
    ELSE IF Contains(h, Keyword.punctuation) THEN Ladder.Punct
    ELSE IF Contains(h, Keyword.line) \/ Contains(h, Keyword.content) THEN Ladder.Content
    ELSE Ladder.Default

\* the fallback ladder: the expression of the first keyword found in the
\* lower-cased hypothesis
Fallback(hypothesis) ==
    LET h == Lower(hypothesis) IN
    IF Contains(h, Keyword.even) THEN Ladder.Even
    ELSE IF Contains(h, Keyword.odd) THEN Ladder.Odd
    ELSE IF Contains(h, Keyword.special_character) \/ Contains(h, Keyword.non_alpha) THEN Ladder.Special
    ELSE IF Contains(h, Keyword.length) /\ Contains(h, Keyword.line) THEN Answer.Len8
    ELSE IF Contains(h, Keyword.length) \/ Contains(h, Keyword.long) THEN Ladder.Len10
    ELSE IF Contains(h, Keyword.short) THEN Ladder.Short
    ELSE IF Contains(h, Keyword.number) \/ Contains(h, Keyword.digit) THEN Ladder.Digit
    ELSE IF Contains(h, Keyword.repeated) \/ Contains(h, Keyword.repeating)
            \/ Contains(h, Keyword.repetition)
    THEN IF Contains(h, Keyword.character) \/ Contains(h, Keyword.letter) THEN Ladder.Repeat1
         ELSE IF Contains(h, Keyword.word) \/ Contains(h, Keyword.phrase) THEN Ladder.Repeat2
         ELSE Ladder.Repeat1
    ELSE IF Contains(h, Keyword.uppercase) THEN Ladder.Upper
    ELSE IF Contains(h, Keyword.lowercase) THEN Ladder.Lower
    ELSE IF Contains(h, Keyword.case) THEN Ladder.Case
    ELSE IF Contains(h, Keyword.vowel) THEN Ladder.Vowel
    ELSE IF Contains(h, Keyword.consonant) THEN Ladder.Consonant
    ELSE IF Contains(h, Keyword.ratio) \/ Contains(h, Keyword.frequency)
    THEN IF Contains(h, Keyword.character) \/ Contains(h, Keyword.special) THEN Ladder.RatioChar
         ELSE Ladder.Consonant
    ELSE IF Contains(h, Keyword.punctuation) THEN Ladder.Punct
    ELSE IF Contains(h, Keyword.line) \/ Contains(h, Keyword.content) THEN Ladder.Content
    ELSE Ladder.Default

\* Hypotheses the compiler is called with.
CompileHypotheses ==
    { \* Files with even numbers
      <<"F","i","l","e","s"," ","w","i","t","h"," ","e","v","e","n"," ","n",
        "u","m","b","e","r","s">>,
      \* Odd-numbered files
      <<"O","d","d","-","n","u","m","b","e","r","e","d"," ","f","i","l","e",
        "s">>,
      \* Repeated characters in the name
      <<"R","e","p","e","a","t","e","d"," ","c","h","a","r","a","c","t","e",
        "r","s"," ","i","n"," ","t","h","e"," ","n","a","m","e">>,
      \* Files with long lines
      <<"F","i","l","e","s"," ","w","i","t","h"," ","l","o","n","g"," ","l",
        "i","n","e","s">>,
      \* Line length over 100
      <<"L","i","n","e"," ","l","e","n","g","t","h"," ","o","v","e","r"," ",
        "1","0","0">>,
      \* Repeating words
      <<"R","e","p","e","a","t","i","n","g"," ","w","o","r","d","s">>,
      \* Short names
      <<"S","h","o","r","t"," ","n","a","m","e","s">>,
      \* Names with digits
      <<"N","a","m","e","s"," ","w","i","t","h"," ","d","i","g","i","t",
        "s">>,
      \* Many vowels
      <<"M","a","n","y"," ","v","o","w","e","l","s">>,
      \* Files named after animals
      <<"F","i","l","e","s"," ","n","a","m","e","d"," ","a","f","t","e","r",
        " ","a","n","i","m","a","l","s">> }

\* Responses of the model to the expression prompt: expressions, the empty
\* string, an expression in backticks, prose, an expression with whitespace around it.
CompileResponses ==
    {Answer.Len8, Answer.Ord, Answer.Import, Answer.OsPath, Answer.Open, Answer.Mod6,
     Answer.IntStem, Answer.ErrorText, Answer.CharLoop, Answer.Times, Ladder.Repeat1,
     <<>>,
     <<Backtick>> \o Answer.Len8 \o <<Backtick>>,
     \* Use len(fname) > 8
     <<"U","s","e"," ","l","e","n","(","f","n","a","m","e",")"," ",">"," ",
       "8">>,
     \* '  len(fname) > 10\n'
     <<" "," ","l","e","n","(","f","n","a","m","e",")"," ",">"," ","1","0",
       "\n">>}

\* the pipeline's runs are numbered from 1; the model stops after this many
MaxCompileRuns == 2

\* no create_filter_script call yet
CompIdle ==
    [pc |-> "idle", hypothesis |-> <<>>, run_id |-> 0, expression |-> <<>>,
     result |-> <<>>, fallback |-> FALSE, error |-> "", exception |-> "",
     saved |-> <<>>, evaluated |-> FALSE, builtins |-> {}, names |-> {}]

\* the file save_expression writes
ExpressionFile(run_id, hypothesis, expression, is_fallback) ==
    [run_id |-> run_id, is_fallback |-> is_fallback, hypothesis |-> hypothesis,
     expression |-> expression]

\* the model's expression passes the static checks and every test
\* evaluation: it is returned as it is
CompileAccepts(hypothesis, run_id, response) ==
    LET expression == CleanExpression(response) IN
    /\ run_id = comp.run_id + 1
    /\ ValidationError(expression) = ""
    /\ comp' = [pc |-> "returned", hypothesis |-> hypothesis, run_id |-> run_id,
                expression |-> expression, result |-> expression,
                fallback |-> FALSE, error |-> "", exception |-> "",
                saved |-> <<ExpressionFile(run_id, hypothesis, expression, FALSE)>>,
                evaluated |-> TRUE, builtins |-> validation_builtins,
                names |-> NamesReached(expression)]
    /\ UNCHANGED notCompVars

\* a static check or a test evaluation raises: the ladder's expression is
\* returned without being evaluated
CompileFallsBack(hypothesis, run_id, response) ==
    LET expression == CleanExpression(response) IN
    /\ run_id = comp.run_id + 1
    /\ ValidationError(expression) # ""
    /\ comp' = [pc |-> "returned", hypothesis |-> hypothesis, run_id |-> run_id,
                expression |-> expression, result |-> Fallback(hypothesis),
                fallback |-> TRUE, error |-> ValidationError(expression),
                exception |-> "",
                saved |-> <<ExpressionFile(run_id, hypothesis, expression, FALSE),
                            ExpressionFile(run_id, hypothesis,
                                           Fallback(hypothesis), TRUE)>>,
                evaluated |-> ScreeningError(expression) = "",
                builtins |-> IF ScreeningError(expression) = ""
                             THEN validation_builtins ELSE {},
                names |-> {}]
    /\ UNCHANGED notCompVars

\* call_openai raises after its last attempt: the call is outside the try
\* block, nothing catches the error
CompileGatewayFails(hypothesis, run_id) ==
    /\ run_id = comp.run_id + 1
    /\ comp' = [CompIdle EXCEPT !.pc = "raised", !.hypothesis = hypothesis,
                                !.run_id = run_id, !.exception = "RetryError"]
    /\ UNCHANGED notCompVars

\* the response has no content: call_openai returns None and
\* response.strip() raises, outside the try block too
CompileNoContent(hypothesis, run_id) ==
    /\ run_id = comp.run_id + 1
    /\ comp' = [CompIdle EXCEPT !.pc = "raised", !.hypothesis = hypothesis,
                                !.run_id = run_id, !.exception = "AttributeError"]
    /\ UNCHANGED notCompVars

CompNext ==
    \/ \E h \in CompileHypotheses, id \in 1..MaxCompileRuns, r \in CompileResponses :
          CompileAccepts(h, id, r)
    \/ \E h \in CompileHypotheses, id \in 1..MaxCompileRuns, r \in CompileResponses :
          CompileFallsBack(h, id, r)
    \/ \E h \in CompileHypotheses, id \in 1..MaxCompileRuns : CompileGatewayFails(h, id)
    \/ \E h \in CompileHypotheses, id \in 1..MaxCompileRuns : CompileNoContent(h, id)

(***************************************************************************)
(* filter_data, sample_filtered_files, calculate_confidence                *)
(***************************************************************************)
\* the runs of the model
MaxFilterRuns == 2

\* the largest n sample_filtered_files is called with
MaxSampleN == 2

\* os.listdir(self.data_dir), in the order it enumerates the files
Corpus ==
    << <<"1",".","t","x","t">>,
       <<"1","0",".","t","x","t">>,
       <<"a","-","b",".","t","x","t">>,
       <<"n","o","t","e","s","_","2",".","t","x","t">> >>

\* the expressions filter_data is called with
FilterCodes == {Answer.Len8, Ladder.Even, Answer.Mod6, Answer.ErrorText, Answer.Ord}

\* "ERROR: "
ErrorPrefix == <<"E","R","R","O","R",":"," ">>

\* safe_eval: the value of the expression in the production environment, or
\* for an exception the string "ERROR: <message>" (exc keeps the exception's
\* type for the tally of error_types)
safe_eval(code, filename) ==
    LET v == Eval(code, production_builtins, filename) IN
    IF v.raised THEN [StrValue(ErrorPrefix) EXCEPT !.exc = v.exc] ELSE v

\* error_types[exc] += 1
Tally(error_types, exc) ==
    IF exc \in DOMAIN error_types
    THEN [error_types EXCEPT ![exc] = @ + 1]
    ELSE (exc :> 1) @@ error_types

\* the loop of filter_data over the files still to evaluate
RECURSIVE FilterLoop(_, _, _)
FilterLoop(filter_code, files, acc) ==
    IF files = <<>> THEN acc
    ELSE LET fname == Head(files)
             result == safe_eval(filter_code, fname)
         IN  FilterLoop(filter_code, Tail(files),
                IF result.type = "str" /\ result.error_prefix
                THEN [acc EXCEPT !.error_count = @ + 1,
                                 !.error_types = IF result.exc # ""
                                                 THEN Tally(@, result.exc) ELSE @,
                                 !.evaluated = Append(@, fname)]
                ELSE [acc EXCEPT !.filtered = IF result.truthy
                                              THEN Append(@, fname) ELSE @,
                                 !.evaluated = Append(@, fname)])

\* str.find and str.rfind of one character: a 0-based index, -1 if absent
Find(text, c) ==
    IF \E i \in DOMAIN text : text[i] = c THEN FirstIndex(text, c) - 1 ELSE 0 - 1

RFind(text, c) ==
    IF \E i \in DOMAIN text : text[i] = c
    THEN (CHOOSE i \in DOMAIN text :
             text[i] = c /\ \A j \in (i + 1)..Len(text) : text[j] # c) - 1
    ELSE 0 - 1

\* JSON texts a model may answer with
Json ==
      \* {"bad_files": 2, "total_files": 2, "confidence": 0.8}
    [ Good |->
          <<"{","\"","b","a","d","_","f","i","l","e","s","\"",":"," ","2",
            ","," ","\"","t","o","t","a","l","_","f","i","l","e","s","\"",
            ":"," ","2",","," ","\"","c","o","n","f","i","d","e","n","c",
            "e","\"",":"," ","0",".","8","}">>,
      \* {"bad_files": 1, "total_files": 2, "confidence": 0.774}
      Half |->
          <<"{","\"","b","a","d","_","f","i","l","e","s","\"",":"," ","1",
            ","," ","\"","t","o","t","a","l","_","f","i","l","e","s","\"",
            ":"," ","2",","," ","\"","c","o","n","f","i","d","e","n","c",
            "e","\"",":"," ","0",".","7","7","4","}">>,
      \* {"bad_files": 5, "total_files": 3, "confidence": 1.5}
      Over |->
          <<"{","\"","b","a","d","_","f","i","l","e","s","\"",":"," ","5",
            ","," ","\"","t","o","t","a","l","_","f","i","l","e","s","\"",
            ":"," ","3",","," ","\"","c","o","n","f","i","d","e","n","c",
            "e","\"",":"," ","1",".","5","}">>,
      \* {"bad_files": -1, "total_files": 2, "confidence": -0.2}
      Negative |->
          <<"{","\"","b","a","d","_","f","i","l","e","s","\"",":"," ","-",
            "1",","," ","\"","t","o","t","a","l","_","f","i","l","e","s",
            "\"",":"," ","2",","," ","\"","c","o","n","f","i","d","e","n",
            "c","e","\"",":"," ","-","0",".","2","}">>,
      \* {}
      Empty |->
          <<"{","}">>,
      \* {"bad_files": "many", "total_files": 2, "confidence": 0.9}
      Words |->
          <<"{","\"","b","a","d","_","f","i","l","e","s","\"",":"," ","\"",
            "m","a","n","y","\"",","," ","\"","t","o","t","a","l","_","f",
            "i","l","e","s","\"",":"," ","2",","," ","\"","c","o","n","f",
            "i","d","e","n","c","e","\"",":"," ","0",".","9","}">>,
      \* {"bad_files": 1, "total_files": null, "confidence": 0.9}
      Null |->
          <<"{","\"","b","a","d","_","f","i","l","e","s","\"",":"," ","1",
            ","," ","\"","t","o","t","a","l","_","f","i","l","e","s","\"",
            ":"," ","n","u","l","l",","," ","\"","c","o","n","f","i","d",
            "e","n","c","e","\"",":"," ","0",".","9","}">>,
      \* {"bad_files": 1.9, "total_files": "2", "confidence": 1}
      Fraction |->
          <<"{","\"","b","a","d","_","f","i","l","e","s","\"",":"," ","1",
            ".","9",","," ","\"","t","o","t","a","l","_","f","i","l","e",
            "s","\"",":"," ","\"","2","\"",","," ","\"","c","o","n","f","i",
            "d","e","n","c","e","\"",":"," ","1","}">>,
      \* {"bad_files": -3, "total_files": -1, "confidence": 0.5}
      NoDataset |->
          <<"{","\"","b","a","d","_","f","i","l","e","s","\"",":"," ","-",
            "3",","," ","\"","t","o","t","a","l","_","f","i","l","e","s",
            "\"",":"," ","-","1",","," ","\"","c","o","n","f","i","d","e",
            "n","c","e","\"",":"," ","0",".","5","}">>,
      \* {bad}
      Broken |->
          <<"{","b","a","d","}">> ]

\* a JSON value: its type ("int", "float", "str", "null") and its value, a
\* float in thousandths
JsonValue(t, v) == [t |-> t, v |-> v]

\* json.loads of the texts above (everything else is a JSONDecodeError)
json_loads(text) ==
    CASE text = Json.Good ->
            [raised |-> FALSE,
             obj |-> [bad_files |-> JsonValue("int", 2), total_files |-> JsonValue("int", 2),
                      confidence |-> JsonValue("float", 800)]]
      [] text = Json.Half ->
            [raised |-> FALSE,
             obj |-> [bad_files |-> JsonValue("int", 1), total_files |-> JsonValue("int", 2),
                      confidence |-> JsonValue("float", 774)]]
      [] text = Json.Over ->
            [raised |-> FALSE,
             obj |-> [bad_files |-> JsonValue("int", 5), total_files |-> JsonValue("int", 3),
                      confidence |-> JsonValue("float", 1500)]]
      [] text = Json.Negative ->
            [raised |-> FALSE,
             obj |-> [bad_files |-> JsonValue("int", 0 - 1), total_files |-> JsonValue("int", 2),
                      confidence |-> JsonValue("float", 0 - 200)]]
      [] text = Json.Empty -> [raised |-> FALSE, obj |-> <<>>]
      [] text = Json.Words ->
            [raised |-> FALSE,
             obj |-> [bad_files |-> JsonValue("str", <<"m","a","n","y">>),
                      total_files |-> JsonValue("int", 2), confidence |-> JsonValue("float", 900)]]
      [] text = Json.Null ->
            [raised |-> FALSE,
             obj |-> [bad_files |-> JsonValue("int", 1), total_files |-> JsonValue("null", 0),
                      confidence |-> JsonValue("float", 900)]]
      [] text = Json.Fraction ->
            [raised |-> FALSE,
             obj |-> [bad_files |-> JsonValue("float", 1900), total_files |-> JsonValue("str", <<"2">>),
                      confidence |-> JsonValue("int", 1)]]
      [] text = Json.NoDataset ->
            [raised |-> FALSE,
             obj |-> [bad_files |-> JsonValue("int", 0 - 3), total_files |-> JsonValue("int", 0 - 1),
                      confidence |-> JsonValue("float", 500)]]
      [] OTHER -> [raised |-> TRUE, obj |-> <<>>]

\* what call_openai hands to calculate_confidence: a message without content
\* (None) or a text
GatewayReplies ==
    {[none |-> TRUE, text |-> <<>>]} \cup
    {[none |-> FALSE, text |-> t] :
        t \in {Json.Good, Json.Half, Json.Over, Json.Negative, Json.Empty,
               Json.Words, Json.Null, Json.Fraction, Json.NoDataset, Json.Broken,
               <<>>,
               \* }{
               <<"}", "{">>,
               \* I cannot tell.
               <<"I"," ","c","a","n","n","o","t"," ","t","e","l","l",".">>,
               \* Sure! {...} Done.\n
               <<"S","u","r","e","!"," ">> \o Json.Half
                  \o <<" ","D","o","n","e",".","\n">>}}

\* result.get(key, default)
Get(obj, key, default) == IF key \in DOMAIN obj THEN obj[key] ELSE default

\* a / b truncated towards zero, for b > 0
TruncDiv(a, b) == IF a >= 0 THEN a \div b ELSE 0 - ((0 - a) \div b)

\* int(value): [raised, v]
PyInt(value) ==
    CASE value.t = "int" -> [raised |-> FALSE, v |-> value.v]
      [] value.t = "float" -> [raised |-> FALSE, v |-> TruncDiv(value.v, 1000)]
      [] value.t = "str" ->
            IF IntParsable(value.v)
            THEN [raised |-> FALSE, v |-> IntValue(value.v)]
            ELSE [raised |-> TRUE, v |-> 0]
      [] OTHER -> [raised |-> TRUE, v |-> 0]

\* float(value), in thousandths: [raised, v] (of the strings only those that
\* int() accepts are given a value; the modelled answers hold no other number
\* in a string)
PyFloat(value) ==
    CASE value.t = "int" -> [raised |-> FALSE, v |-> value.v * 1000]
      [] value.t = "float" -> [raised |-> FALSE, v |-> value.v]
      [] value.t = "str" ->
            IF IntParsable(value.v)
            THEN [raised |-> FALSE, v |-> IntValue(value.v) * 1000]
            ELSE [raised |-> TRUE, v |-> 0]
      [] OTHER -> [raised |-> TRUE, v |-> 0]

\* round(x, 2) of a value in thousandths, in hundredths (no modelled value is
\* half way between two hundredths)
Round2(m) == IF m >= 0 THEN (m + 5) \div 10 ELSE 0 - ((5 - m) \div 10)

\* calculate_metrics divides by dataset_size_estimate: it raises
\* ZeroDivisionError when that is 0 (confidence in thousandths)
dataset_size_estimate(bad_files, total_files, confidence) ==
    LET estimated_total_bad ==
            Max(1, TruncDiv(bad_files * 1000, Max(100, confidence)))
    IN  Max(total_files * 10, total_files + estimated_total_bad)

\* the result for no samples
ZeroCase == [confidence |-> 0, bad |-> 0, total |-> 0, summary |-> "No files to analyze"]

\* the result when the response cannot be used (confidence in hundredths)
DefaultEstimate(n) ==
    [confidence |-> 50, bad |-> n \div 2, total |-> n, summary |-> "default fallback"]

\* the try block of calculate_confidence over the response, for n samples:
\* the estimate read from the response, or DefaultEstimate(n) when the block
\* raises or finds no JSON object
ParseConfidence(reply, n) ==
    IF reply.none THEN DefaultEstimate(n)
    ELSE
    LET response == Strip(reply.text)
        start_idx == Find(response, "{")
        end_idx == RFind(response, "}") + 1
        result == json_loads(SubSeq(response, start_idx + 1, end_idx))
        bad_files == PyInt(Get(result.obj, "bad_files", JsonValue("int", 0)))
        total_files == PyInt(Get(result.obj, "total_files", JsonValue("int", n)))
        confidence == PyFloat(Get(result.obj, "confidence", JsonValue("int", 0)))
    IN  IF ~(start_idx >= 0 /\ end_idx > start_idx) THEN DefaultEstimate(n)
        ELSE IF result.raised \/ bad_files.raised \/ total_files.raised
                \/ confidence.raised
        THEN DefaultEstimate(n)
        ELSE IF dataset_size_estimate(bad_files.v, total_files.v, confidence.v) = 0
        THEN DefaultEstimate(n)
        ELSE [confidence |-> Round2(confidence.v), bad |-> bad_files.v,
              total |-> total_files.v, summary |-> "parsed"]

\* no run yet
RunIdle ==
    [id |-> 0, pc |-> "idle", filter_code |-> <<>>, output_path |-> 0,
     filtered |-> <<>>, evaluated |-> <<>>, error_count |-> 0,
     error_types |-> <<>>, samples |-> {}, estimate |-> ZeroCase]

\* filter_data(filter_code, output_file): output_file 0 is None, the default
\* self.filtered_list_path; the list is written only when it is not empty
FilterData(filter_code, output_file) ==
    LET loop == FilterLoop(filter_code, Corpus,
                           [filtered |-> <<>>, evaluated |-> <<>>,
                            error_count |-> 0, error_types |-> <<>>])
    IN
    /\ run.pc \in {"idle", "scored", "raised"}
    /\ run.id < MaxFilterRuns
    /\ output_file \in {0, run.id + 1}
    /\ run' = [RunIdle EXCEPT !.id = run.id + 1, !.pc = "filtered",
                              !.filter_code = filter_code,
                              !.output_path = output_file,
                              !.filtered = loop.filtered,
                              !.evaluated = loop.evaluated,
                              !.error_count = loop.error_count,
                              !.error_types = loop.error_types]
    /\ artifacts' = IF loop.filtered # <<>>
                    THEN [artifacts EXCEPT ![output_file] =
                                               [exists |-> TRUE, lines |-> loop.filtered]]
                    ELSE artifacts
    /\ UNCHANGED notFilterVars

\* sample_filtered_files(n, input_file) on the path the run's filter_data
\* reported: no file or no names gives {}, otherwise random.sample picks
\* min(n, len(filenames)) of the names
SampleFiltered(n, sampled_files) ==
    LET file == artifacts[run.output_path]
        filenames == IF ~file.exists THEN <<>>
                     ELSE SelectSeq([i \in DOMAIN file.lines |-> Strip(file.lines[i])],
                                    LAMBDA line : line # <<>>)
    IN
    /\ run.pc = "filtered"
    /\ sampled_files \subseteq Range(filenames)
    /\ Cardinality(sampled_files) = Min(n, Len(filenames))
    /\ run' = [run EXCEPT !.pc = "sampled", !.samples = sampled_files]
    /\ UNCHANGED <<artifacts, notFilterVars>>

\* calculate_confidence with no samples: the zero case, without a gateway call
ConfidenceZeroCase ==
    /\ run.pc = "sampled"
    /\ run.samples = {}
    /\ run' = [run EXCEPT !.pc = "scored", !.estimate = ZeroCase]
    /\ UNCHANGED <<artifacts, notFilterVars>>

\* calculate_confidence with samples and an answer from the gateway
ConfidenceFromReply(reply) ==
    /\ run.pc = "sampled"
    /\ run.samples # {}
    /\ run' = [run EXCEPT !.pc = "scored",
                          !.estimate = ParseConfidence(reply, Cardinality(run.samples))]
    /\ UNCHANGED <<artifacts, notFilterVars>>

\* calculate_confidence with samples while call_openai raises after its last
\* attempt: the call is before the try block
ConfidenceGatewayFails ==
    /\ run.pc = "sampled"
    /\ run.samples # {}
    /\ run' = [run EXCEPT !.pc = "raised"]
    /\ UNCHANGED <<artifacts, notFilterVars>>

FilterNext ==
    \/ \E code \in FilterCodes, path \in 0..MaxFilterRuns : FilterData(code, path)
    \/ \E n \in 1..MaxSampleN, files \in SUBSET Range(Corpus) : SampleFiltered(n, files)
    \/ ConfidenceZeroCase
    \/ \E reply \in GatewayReplies : ConfidenceFromReply(reply)
    \/ ConfidenceGatewayFails

\* a new store directory, no call made yet, no filtered list on disk
(***************************************************************************)
(* HypothesisStore.__init__ over a file that is already there, and the      *)
(* operations of the store it yields                                        *)
(***************************************************************************)
MaxLoadStore == 2
MaxHistory == 3

\* Files whose content json.load accepts although it is not a store: a list,
\* null, and objects that lack one key or both.  "unreadable" is a file that
\* exists and that open() refuses.
OtherShapes ==
    {"json_list", "json_null", "json_empty", "json_no_hashes", "json_no_hypotheses"}

ShapedFile(kind) == [kind |-> kind, hypotheses |-> <<>>, hash_values |-> <<>>]

\* the files a store is constructed over
LoadFiles ==
    {AbsentFile, CorruptFile, ShapedFile("unreadable"), JsonFile(<<>>, <<>>),
     JsonFile(<<HypothesisRecord(<<"a","b","c">>, 1, 0)>>,
              <<_get_hypothesis_hash(<<"a","b","c">>)>>)}
    \cup {ShapedFile(k) : k \in OtherShapes}

\* the object self.hypotheses: what kind of value it is, the keys it has if
\* it is a dict, and the two lists
StoreObject(shape, keys, hyps, hashes) ==
    [shape |-> shape, keys |-> keys, hypotheses |-> hyps, hash_values |-> hashes]

\* {"hypotheses": [], "hash_values": []}
EmptyStore == StoreObject("dict", {"hypotheses", "hash_values"}, <<>>, <<>>)

\* _load_hypotheses: the value of json.load as it is; the empty store when the
\* file is absent or when open or json.load raise
_load_hypotheses(file) ==
    CASE file.kind = "absent" -> EmptyStore
      [] file.kind \in {"corrupt", "unreadable"} -> EmptyStore
      [] file.kind = "json" ->
            StoreObject("dict", {"hypotheses", "hash_values"},
                        file.hypotheses, file.hash_values)
      [] file.kind = "json_list" -> StoreObject("list", {}, <<>>, <<>>)
      [] file.kind = "json_null" -> StoreObject("null", {}, <<>>, <<>>)
      [] file.kind = "json_empty" -> StoreObject("dict", {}, <<>>, <<>>)
      [] file.kind = "json_no_hashes" -> StoreObject("dict", {"hypotheses"}, <<>>, <<>>)
      [] file.kind = "json_no_hypotheses" -> StoreObject("dict", {"hash_values"}, <<>>, <<>>)

\* self.hypotheses[key]: the exception it raises, "" if none
Subscript(store, key) ==
    IF store.shape # "dict" THEN "TypeError"
    ELSE IF key \notin store.keys THEN "KeyError"
    ELSE ""

\* str(i) of a natural number
RECURSIVE PyStr(_)
PyStr(i) ==
    IF i < 10 THEN <<DigitChars[i + 1]>>
    ELSE PyStr(i \div 10) \o <<DigitChars[(i % 10) + 1]>>

\* seq[start:]
SliceFrom(seq, start) ==
    LET first == IF start < 0 THEN Max(Len(seq) + start, 0) ELSE Min(start, Len(seq))
    IN  SubSeq(seq, first + 1, Len(seq))

HistoryHeader ==
    <<"P","r","e","v","i","o","u","s","l","y"," ","a",
      "t","t","e","m","p","t","e","d"," ","h","y","p",
      "o","t","h","e","s","e","s",":","\n">>

\* for i, h in enumerate(recent, 1): history += f"{i}. {h['hypothesis']}\n"
RECURSIVE HistoryLines(_, _)
HistoryLines(recent, i) ==
    IF recent = <<>> THEN <<>>
    ELSE PyStr(i) \o <<".", " ">> \o Head(recent).hypothesis \o <<"\n">>
         \o HistoryLines(Tail(recent), i + 1)

\* get_history_for_prompt(max_length): recent is hypotheses[-max_length:]
get_history_for_prompt(hyps, max_length) ==
    IF hyps = <<>> THEN <<>>
    ELSE HistoryHeader \o HistoryLines(SliceFrom(hyps, 0 - max_length), 1)

\* no store constructed yet
LoadNone ==
    [pc |-> "none", source |-> "", file |-> AbsentFile, store |-> EmptyStore,
     adds |-> 0, op |-> "", max_length |-> 0, is_new |-> FALSE,
     history |-> <<>>, raised |-> ""]

\* HypothesisStore(store_file) over one of the files, or over the file the
\* store before it left behind
Construct(file) ==
    /\ file \in LoadFiles \cup {ld.file}
    /\ ld' = [LoadNone EXCEPT !.pc = "constructed", !.source = file.kind,
                              !.file = file, !.store = _load_hypotheses(file),
                              !.op = "construct"]
    /\ UNCHANGED notLoadVars

\* is_new_hypothesis(hypothesis) on the constructed store
LoadIsNew(hypothesis) ==
    /\ ld.pc = "constructed"
    /\ ld' = [ld EXCEPT !.op = "is_new",
                        !.raised = Subscript(ld.store, "hash_values"),
                        !.is_new = IF Subscript(ld.store, "hash_values") = ""
                                   THEN is_new_hypothesis(ld.store.hash_values, hypothesis)
                                   ELSE FALSE,
                        !.history = <<>>, !.max_length = 0]
    /\ UNCHANGED notLoadVars

\* add_hypothesis(hypothesis, run_id) on the constructed store: the record is
\* appended before the fingerprint list is looked up, and the file is written
\* only after both appends
LoadAdd(hypothesis, outcome) ==
    LET no_records == Subscript(ld.store, "hypotheses")
        no_hashes == Subscript(ld.store, "hash_values")
        with_record == [ld.store EXCEPT !.hypotheses =
                           AddedHypotheses(@, hypothesis, Len(@) + 1, 0)]
        with_both == [with_record EXCEPT !.hash_values = AddedHashes(@, hypothesis)]
    IN
    /\ ld.pc = "constructed"
    /\ Len(ld.store.hypotheses) < MaxLoadStore
    /\ ld' = [ld EXCEPT !.op = "add", !.is_new = FALSE, !.history = <<>>,
                        !.max_length = 0,
                        !.raised = IF no_records # "" THEN no_records ELSE no_hashes,
                        !.store = IF no_records # "" THEN ld.store
                                  ELSE IF no_hashes # "" THEN with_record
                                  ELSE with_both,
                        !.adds = IF no_records # "" \/ no_hashes # "" THEN @ ELSE @ + 1,
                        !.file = IF no_records # "" \/ no_hashes # "" THEN @
                                 ELSE _save_hypotheses(@, with_both.hypotheses,
                                                       with_both.hash_values, outcome)]
    /\ UNCHANGED notLoadVars

\* get_history_for_prompt(max_length) on the constructed store
LoadHistory(max_length) ==
    /\ ld.pc = "constructed"
    /\ ld' = [ld EXCEPT !.op = "history", !.max_length = max_length,
                        !.is_new = FALSE,
                        !.raised = Subscript(ld.store, "hypotheses"),
                        !.history = IF Subscript(ld.store, "hypotheses") = ""
                                    THEN get_history_for_prompt(ld.store.hypotheses,
                                                                max_length)
                                    ELSE <<>>]
    /\ UNCHANGED notLoadVars

LoadNext ==
    \/ \E file \in LoadFiles \cup {ld.file} : Construct(file)
    \/ \E h \in ProbeTexts : LoadIsNew(h)
    \/ \E h \in ProbeTexts, o \in SaveOutcomes : LoadAdd(h, o)
    \/ \E n \in 0..MaxHistory : LoadHistory(n)

(***************************************************************************)
(* The API key: AntidoteIntelligence.__init__ and the except branch of      *)
(* call_openai (src/python/antidote.py), LLMEnhancedAntidote.__init__,       *)
(* call_llm_api and generate_hypothesis (src/main.py)                       *)
(***************************************************************************)
MaxCredAttempts == 2

\* the two systems that take an API key
Variants == {"python/antidote.py", "main.py"}

\* API keys of 3, 8, 9 and 12 characters, and one of 11 characters whose
\* middle is "..."; <<>> is no key (None or the empty string)
ApiKeys ==
    { <<>>,
      <<"s","k","1">>,
      <<"s","k","-","1","2","3","4","5">>,
      <<"s","k","-","1","2","3","4","5","6">>,
      <<"s","k","-","1","2","3","4","5","6","7","8","9">>,
      <<"s","k","-","1",".",".",".","6","7","8","9">> }

\* str(e) of the exception of a failed attempt: a message that quotes the key
\* of the request, and one that does not
FailureMessages(api_key) ==
    { <<"I","n","c","o","r","r","e","c","t"," ","A","P",
        "I"," ","k","e","y"," ","p","r","o","v","i","d",
        "e","d",":"," ">> \o api_key \o <<".">>,
      <<"R","e","q","u","e","s","t"," ","t","i","m","e",
        "d"," ","o","u","t",".">> }

\* the text a logger.error call emits, by variant, and the text call_llm_api
\* returns without a key
Text ==
    [openai |-> <<"E","r","r","o","r"," ","c","a","l","l","i","n",
                 "g"," ","O","p","e","n","A","I"," ","A","P","I",
                 ":"," ">>,
     llm |-> <<"E","r","r","o","r"," ","c","a","l","l","i","n",
              "g"," ","L","L","M"," ","A","P","I",":"," ">>,
     no_key |-> <<"E","R","R","O","R",":"," ","N","o"," ","A","P",
                 "I"," ","k","e","y"," ","a","v","a","i","l","a",
                 "b","l","e">>]

\* text.replace(old, new), old not empty
RECURSIVE Replace(_, _, _)
Replace(text, old, new) ==
    IF Len(text) < Len(old) THEN text
    ELSE IF SubSeq(text, 1, Len(old)) = old
         THEN new \o Replace(SubSeq(text, Len(old) + 1, Len(text)), old, new)
         ELSE <<Head(text)>> \o Replace(Tail(text), old, new)

\* the error text the except branch of the gateway logs for str(e) = error_msg:
\* call_openai masks a key of more than 8 characters as its first four
\* characters, "..." and its last four; call_llm_api logs str(e) as it is
ErrorText(variant, api_key, error_msg) ==
    IF variant = "main.py" THEN Text.llm \o error_msg
    ELSE IF api_key # <<>> /\ Len(api_key) > 8
         THEN LET visible_part == SubSeq(api_key, 1, 4) \o <<".", ".", ".">> \o
                                  SubSeq(api_key, Len(api_key) - 3, Len(api_key))
              IN  Text.openai \o Replace(error_msg, api_key, visible_part)
         ELSE Text.openai \o error_msg

\* nothing constructed yet
CredNone ==
    [pc |-> "none", variant |-> "", api_key |-> <<>>, attempts |-> 0,
     log |-> <<>>, hypothesis |-> <<>>]

\* __init__(api_key=...), with no OPENAI_API_KEY in the environment:
\* AntidoteIntelligence raises ValueError without a key, LLMEnhancedAntidote
\* logs a warning and is constructed
CredConstruct(variant, api_key) ==
    /\ cred.pc = "none"
    /\ cred' = [CredNone EXCEPT !.variant = variant, !.api_key = api_key,
                  !.pc = IF variant = "python/antidote.py" /\ api_key = <<>>
                         THEN "refused" ELSE "constructed"]
    /\ UNCHANGED notCredVars

\* an attempt of the gateway fails: the except branch logs and re-raises
CredAttemptFails(error_msg) ==
    /\ cred.pc = "constructed"
    /\ cred.api_key # <<>>
    /\ cred.attempts < MaxCredAttempts
    /\ cred' = [cred EXCEPT !.attempts = @ + 1,
                            !.log = Append(@, ErrorText(cred.variant, cred.api_key,
                                                        error_msg))]
    /\ UNCHANGED notCredVars

\* an attempt of the gateway answers and generate_hypothesis takes
\* response.strip() as the hypothesis
CredAttemptAnswers(response) ==
    /\ cred.pc = "constructed"
    /\ cred.api_key # <<>>
    /\ cred.attempts < MaxCredAttempts
    /\ cred' = [cred EXCEPT !.attempts = @ + 1, !.hypothesis = Strip(response)]
    /\ UNCHANGED notCredVars

\* call_llm_api without a key returns its error text without a request, and
\* generate_hypothesis takes response.strip() as the hypothesis
CredNoKeyAnswer ==
    /\ cred.pc = "constructed"
    /\ cred.api_key = <<>>
    /\ cred' = [cred EXCEPT !.hypothesis = Strip(Text.no_key)]
    /\ UNCHANGED notCredVars

CredNext ==
    \/ \E v \in Variants, k \in ApiKeys : CredConstruct(v, k)
    \/ \E m \in FailureMessages(cred.api_key) : CredAttemptFails(m)
    \/ \E r \in Responses : CredAttemptAnswers(r)
    \/ CredNoKeyAnswer

(***************************************************************************)
(* calculate_metrics and _generate_verdict                                  *)
(***************************************************************************)
MaxTotal == 10

\* the confidences of the model, in hundredths
Confidences == {0, 14, 28, 40, 45, 75, 90, 100}

\* Python computes the metrics in IEEE doubles.  The model computes them as
\* exact fractions; this table lists the arguments (bad_files, total_files,
\* confidence in hundredths; for the quotient bad_files and confidence), up to
\* 11 files, at which the double differs from the exact value where it
\* matters: the quotient bad_files / max(0.1, confidence) is a whole number
\* and the double lies below it (int() then gives one less), the weighted
\* score is a threshold of _generate_verdict and the double lies below it,
\* and round(x, 2) of a value half way between two hundredths does not go to
\* the even hundredth.
Double ==
    [quotient_below |->
        {<<7,14>>, <<7,28>>},
     score_below |->
        {<<3,5,28>>, <<3,5,90>>, <<3,10,45>>, <<5,3,40>>, <<6,10,90>>},
     f1_score_tie |->
        {<<3,6,28>>, <<3,10,45>>, <<6,11,28>>, <<7,10,0>>, <<9,6,90>>, <<9,7,100>>,
         <<11,2,14>>},
     accuracy_tie |->
        {<<1,4,75>>, <<1,4,90>>, <<1,4,100>>, <<2,8,75>>, <<2,8,90>>, <<2,8,100>>,
         <<3,4,14>>, <<3,4,90>>, <<3,4,100>>, <<3,8,75>>, <<4,4,75>>, <<6,8,14>>,
         <<6,8,90>>, <<6,8,100>>, <<7,4,90>>, <<7,4,100>>, <<8,8,75>>, <<9,8,14>>,
         <<9,8,75>>, <<10,4,28>>, <<10,4,75>>},
     score_tie |->
        {<<0,0,90>>, <<0,1,90>>, <<0,2,90>>, <<0,3,90>>, <<0,4,90>>, <<0,5,90>>,
         <<0,6,90>>, <<0,7,90>>, <<0,8,90>>, <<0,9,90>>, <<0,10,90>>, <<0,11,90>>,
         <<1,0,90>>, <<1,1,90>>, <<1,2,40>>, <<1,5,90>>, <<2,2,90>>, <<2,10,90>>,
         <<3,2,100>>, <<3,3,90>>, <<3,7,14>>, <<4,0,90>>, <<4,1,90>>, <<4,4,90>>,
         <<5,0,90>>, <<5,1,90>>, <<5,5,90>>, <<6,0,40>>, <<6,1,40>>, <<6,4,100>>,
         <<6,6,90>>, <<7,0,100>>, <<7,1,100>>, <<7,5,90>>, <<7,7,90>>, <<8,2,90>>,
         <<8,8,90>>, <<9,6,100>>, <<11,3,90>>}]

RECURSIVE GCD(_, _)
GCD(a, b) == IF b = 0 THEN a ELSE GCD(b, a % b)

\* the number n / d, d > 0 and n >= 0, in lowest terms
Frac(n, d) == [n |-> n \div GCD(n, d), d |-> d \div GCD(n, d)]

\* x + y, x * y, x / y (y > 0), x <= y of such numbers
Add(x, y) ==
    LET l == (x.d \div GCD(x.d, y.d)) * y.d
    IN  Frac(x.n * (l \div x.d) + y.n * (l \div y.d), l)

Mul(x, y) ==
    LET a == Frac(x.n, y.d)
        b == Frac(y.n, x.d)
    IN  [n |-> a.n * b.n, d |-> a.d * b.d]

Div(x, y) == Mul(x, [n |-> y.d, d |-> y.n])

Leq(x, y) == x.n * y.d <= y.n * x.d

\* round(x, 2) in hundredths; off: the double does not go to the even
\* hundredth at a tie
PyRound2(x, off) ==
    LET r1 == x.n % x.d
        r2 == (10 * r1) % x.d
        r3 == (10 * r2) % x.d
        floor == 100 * (x.n \div x.d) + 10 * ((10 * r1) \div x.d) + ((10 * r2) \div x.d)
    IN  IF 2 * r3 > x.d THEN floor + 1
        ELSE IF 2 * r3 < x.d THEN floor
        ELSE IF (floor % 2 = 1) # off THEN floor + 1 ELSE floor

\* _generate_verdict: the label (the verdict text up to " - ") and the score
\* in hundredths; below: the double of weighted_score lies below its exact
\* value, off: see PyRound2
_generate_verdict(precision, recall, f1_score, accuracy, confidence, below, off) ==
    LET weighted_score ==
            Add(Add(Mul(precision, Frac(25, 100)), Mul(recall, Frac(2, 10))),
                Add(Mul(f1_score, Frac(3, 10)), Mul(confidence, Frac(25, 100))))
        AtLeast(threshold) ==
            Leq(threshold, weighted_score) /\ ~(below /\ weighted_score = threshold)
    IN  [text |-> IF AtLeast(Frac(8, 10)) THEN "Excellent"
                  ELSE IF AtLeast(Frac(6, 10)) THEN "Good"
                  ELSE IF AtLeast(Frac(4, 10)) THEN "Fair"
                  ELSE IF AtLeast(Frac(2, 10)) THEN "Poor"
                  ELSE "Very Poor",
         score |-> PyRound2(weighted_score, off),
         weighted_score |-> weighted_score]

\* an estimate that multiplies by the confidence where the code divides
estimated_total_bad_times(bad_files, confidence) ==
    Max(1, (bad_files * Max(10, confidence)) \div 100)

\* estimated_total_bad = max(1, int(bad_files / max(0.1, confidence)))
estimated_total_bad(bad_files, confidence) ==
    LET quotient == Div(Frac(bad_files, 1), Frac(Max(10, confidence), 100))
    IN  Max(1, (quotient.n \div quotient.d) -
               (IF <<bad_files, confidence>> \in Double.quotient_below THEN 1 ELSE 0))

\* calculate_metrics(bad_files, total_files, confidence), confidence in
\* hundredths, for bad_files >= 0 and total_files >= 0: the returned
\* dictionary (rounded values in hundredths) and the values it was made from
calculate_metrics(bad_files, total_files, confidence) ==
    LET args == <<bad_files, total_files, confidence>>
        true_positives == bad_files
        false_positives == total_files - bad_files
        estimate == estimated_total_bad(bad_files, confidence)
        false_negatives == estimate - true_positives
        precision == Frac(true_positives, Max(1, true_positives + false_positives))
        recall == Frac(true_positives, Max(1, true_positives + false_negatives))
        f1_score ==
            IF Add(precision, recall).n > 0
            THEN Div(Mul(Frac(2, 1), Mul(precision, recall)),
                     IF Leq(Frac(1, 1000), Add(precision, recall))
                     THEN Add(precision, recall) ELSE Frac(1, 1000))
            ELSE Frac(0, 1)
        dataset_size == Max(total_files * 10, total_files + estimate)
        true_negatives ==
            dataset_size - true_positives - false_positives - false_negatives
        accuracy == Frac(true_positives + true_negatives, dataset_size)
    IN  [precision |-> PyRound2(precision, FALSE),
         recall |-> PyRound2(recall, FALSE),
         f1_score |-> PyRound2(f1_score, args \in Double.f1_score_tie),
         accuracy |-> PyRound2(accuracy, args \in Double.accuracy_tie),
         confidence |-> confidence,
         verdict |-> _generate_verdict(precision, recall, f1_score, accuracy,
                                       Frac(confidence, 100),
                                       args \in Double.score_below,
                                       args \in Double.score_tie),
         estimated_total_bad |-> estimate,
         false_negatives |-> false_negatives,
         dataset_size_estimate |-> dataset_size,
         exact |-> [precision |-> precision, recall |-> recall,
                    f1_score |-> f1_score, accuracy |-> accuracy]]

\* no call yet
MetNone ==
    [pc |-> "none", bad_files |-> 0, total_files |-> 0, confidence |-> 0,
     metrics |-> calculate_metrics(0, 0, 0)]

\* a call of calculate_metrics
CalculateMetrics(bad_files, total_files, confidence) ==
    /\ met.pc = "none"
    /\ met' = [pc |-> "returned", bad_files |-> bad_files,
               total_files |-> total_files, confidence |-> confidence,
               metrics |-> calculate_metrics(bad_files, total_files, confidence)]
    /\ UNCHANGED notMetVars

MetNext ==
    \E bad_files \in 0..MaxTotal, total_files \in 0..MaxTotal, confidence \in Confidences :
        CalculateMetrics(bad_files, total_files, confidence)

(***************************************************************************)
(* run_pipeline of src/main.py: six stages called one after the other, no   *)
(* exception handler around them; and the batch of runs that calls it.      *)
(***************************************************************************)
MaxBatchRuns == 3

\* the calls of run_pipeline with compile and filter exchanged
run_pipeline_filter_first ==
    <<"sample_random_files", "generate_hypothesis", "filter_data_by_name",
      "create_filter_script", "sample_filtered_files", "calculate_confidence">>

\* the calls of run_pipeline, in the order of its statements
run_pipeline ==
    <<"sample_random_files", "generate_hypothesis", "create_filter_script",
      "filter_data_by_name", "sample_filtered_files", "calculate_confidence">>

\* no batch yet
PipeIdle ==
    [pc |-> "idle", num_runs |-> 0, current_run |-> 0, stage |-> 0,
     called |-> <<>>, results |-> <<>>]

\* a batch of num_runs runs begins with its first run
BatchStart(num_runs) ==
    /\ pipe.pc = "idle"
    /\ pipe' = [pipe EXCEPT !.pc = "running", !.num_runs = num_runs,
                            !.current_run = 1, !.stage = 1]
    /\ UNCHANGED notPipeVars

\* the next call of run_pipeline returns; after the last one run_pipeline
\* returns its dictionary
StageReturns ==
    /\ pipe.pc = "running"
    /\ pipe.stage <= Len(run_pipeline)
    /\ pipe' = [pipe EXCEPT
                  !.called = Append(@, [stage |-> run_pipeline[pipe.stage],
                                        outcome |-> "returned"]),
                  !.stage = @ + 1,
                  !.pc = IF pipe.stage = Len(run_pipeline)
                         THEN "returned" ELSE "running"]
    /\ UNCHANGED notPipeVars

\* the next call of run_pipeline raises: no statement of run_pipeline
\* catches, the exception leaves it and the remaining calls are not made
StageRaises ==
    /\ pipe.pc = "running"
    /\ pipe.stage <= Len(run_pipeline)
    /\ pipe' = [pipe EXCEPT
                  !.called = Append(@, [stage |-> run_pipeline[pipe.stage],
                                        outcome |-> "raised"]),
                  !.pc = "raised"]
    /\ UNCHANGED notPipeVars

\* the batch records how the run ended and goes on to the next run, or ends
RunEnds ==
    /\ pipe.pc \in {"returned", "raised"}
    /\ LET results == Append(pipe.results, [status |-> pipe.pc,
                                            called |-> pipe.called])
       IN  pipe' = IF pipe.current_run < pipe.num_runs
                   THEN [pipe EXCEPT !.pc = "running", !.current_run = @ + 1,
                                     !.stage = 1, !.called = <<>>,
                                     !.results = results]
                   ELSE [pipe EXCEPT !.pc = "finished", !.results = results]
    /\ UNCHANGED notPipeVars

PipeNext ==
    \/ \E num_runs \in 1..MaxBatchRuns : BatchStart(num_runs)
    \/ StageReturns
    \/ StageRaises
    \/ RunEnds

(***************************************************************************)
(* The overall verdict over the runs of a batch.  Scores are hundredths     *)
(* (round(weighted_score, 2) of _generate_verdict), weights are hundredths; *)
(* the overall score is their sum of products, in ten-thousandths.          *)
(***************************************************************************)
MaxAggRuns == 4

\* verdict scores of the runs: at, below and above the 0.2 cut, and higher
VerdictScores == {10, 20, 21, 50, 70, 90}

\* the scores in descending order
RECURSIVE RankDescending(_)
RankDescending(scores) ==
    IF scores = <<>> THEN <<>>
    ELSE LET best == CHOOSE i \in DOMAIN scores :
                        \A j \in DOMAIN scores : scores[j] <= scores[i]
             rest == [k \in 1..(Len(scores) - 1) |->
                         IF k < best THEN scores[k] ELSE scores[k + 1]]
         IN  <<scores[best]>> \o RankDescending(rest)

\* the weights of three runs cut to the qualifying ones, not renormalized
TopWeightsCut(n) ==
    IF n >= 3 THEN <<60, 30, 10>>
    ELSE IF n = 2 THEN <<60, 30>>
    ELSE IF n = 1 THEN <<60>>
    ELSE <<>>

\* the weights of the top runs: [0.6, 0.3, 0.1], renormalized to [0.7, 0.3]
\* or [1.0] when fewer than three qualify
TopWeights(n) ==
    IF n >= 3 THEN <<60, 30, 10>>
    ELSE IF n = 2 THEN <<70, 30>>
    ELSE IF n = 1 THEN <<100>>
    ELSE <<>>

RECURSIVE WeightedSum(_, _)
WeightedSum(scores, weights) ==
    IF scores = <<>> THEN 0
    ELSE scores[1] * weights[1] + WeightedSum(Tail(scores), Tail(weights))

\* discard the runs at or below 0.2, rank the rest, take the top three,
\* weight them and map the overall score to its recommendation band
overall_verdict(verdict_scores) ==
    LET qualifying == SelectSeq(verdict_scores, LAMBDA s : s > 20)
        ranked == RankDescending(qualifying)
        top == SubSeq(ranked, 1, IF Len(ranked) < 3 THEN Len(ranked) ELSE 3)
        weights == TopWeights(Len(top))
        overall == WeightedSum(top, weights)
    IN  [top |-> top, weights |-> weights, overall_score |-> overall,
         band |-> IF overall >= 8000 THEN ">=0.8"
                  ELSE IF overall >= 6000 THEN ">=0.6"
                  ELSE IF overall >= 4000 THEN ">=0.4"
                  ELSE "else"]

\* nothing aggregated yet
AggNone == [pc |-> "none", verdict_scores |-> <<>>, verdict |-> overall_verdict(<<>>)]

\* the batch aggregates the verdict scores of its runs
Aggregate(verdict_scores) ==
    /\ agg.pc = "none"
    /\ agg' = [pc |-> "aggregated", verdict_scores |-> verdict_scores,
               verdict |-> overall_verdict(verdict_scores)]
    /\ UNCHANGED notAggVars

AggNext ==
    \E n \in 0..MaxAggRuns : \E verdict_scores \in [1..n -> VerdictScores] :
        Aggregate(verdict_scores)

(***************************************************************************)
(* Runs generating hypotheses in parallel against one HypothesisStore.      *)
(* Each run executes generate_hypothesis; is_new_hypothesis (line 341) and  *)
(* add_hypothesis (line 343) are two calls, and another run can act between *)
(* them.  With mutex set, a caller-supplied lock is held from the check to  *)
(* the end of the add that follows it.                                      *)
(***************************************************************************)
MaxParRuns == 3
MaxParAttempts == 2

ParRuns == 1..MaxParRuns

ParIdle ==
    [pc |-> "idle", mutex |-> FALSE, max_attempts |-> 0, now |-> 0,
     hash_values |-> <<>>, forced |-> {}, lock |-> 0,
     runs |-> [r \in ParRuns |->
                  [pc |-> "idle", attempt |-> 0, hypothesis |-> <<>>]]]

\* n runs start generate_hypothesis(sample_data, r, max_attempts), with or
\* without the lock around their check-and-add
ParStart(mutex, n, max_attempts) ==
    /\ par.pc = "idle"
    /\ par' = [par EXCEPT
                 !.pc = "started", !.mutex = mutex,
                 !.max_attempts = max_attempts,
                 !.runs = [r \in ParRuns |->
                             IF r <= n THEN [@[r] EXCEPT !.pc = "call"]
                             ELSE @[r]]]
    /\ UNCHANGED notParVars

\* run r: call_openai answers, the response is stripped (lines 337-338)
ParCall(r, response) ==
    /\ par.runs[r].pc = "call"
    /\ par.runs[r].attempt < par.max_attempts
    /\ par' = [par EXCEPT !.runs[r].pc = "check",
                          !.runs[r].hypothesis = Strip(response)]
    /\ UNCHANGED notParVars

\* run r: call_openai raises, generate_hypothesis is left
ParGatewayFails(r) ==
    /\ par.runs[r].pc = "call"
    /\ par.runs[r].attempt < par.max_attempts
    /\ par' = [par EXCEPT !.runs[r].pc = "raised"]
    /\ UNCHANGED notParVars

\* run r: is_new_hypothesis (line 341), taking the lock first when there is
\* one; a duplicate releases it and goes on with the loop
ParIsNew(r) ==
    /\ par.runs[r].pc = "check"
    /\ par.mutex => par.lock = 0
    /\ IF is_new_hypothesis(par.hash_values, par.runs[r].hypothesis)
       THEN par' = [par EXCEPT !.runs[r].pc = "add",
                               !.lock = IF par.mutex THEN r ELSE 0]
       ELSE par' = [par EXCEPT !.runs[r].pc = "call",
                               !.runs[r].attempt = @ + 1]
    /\ UNCHANGED notParVars

\* run r: add_hypothesis (line 343) and the return, releasing the lock
ParAdd(r) ==
    /\ par.runs[r].pc = "add"
    /\ par' = [par EXCEPT
                 !.hash_values = AddedHashes(@, par.runs[r].hypothesis),
                 !.lock = 0,
                 !.runs[r].pc = "returned"]
    /\ UNCHANGED notParVars

\* run r: the loop is exhausted, the last response gets the time suffix and
\* is added without a check (lines 353-356)
ParForceUnique(r) ==
    /\ par.runs[r].pc = "call"
    /\ par.runs[r].attempt = par.max_attempts
    /\ par' = [par EXCEPT
                 !.hash_values =
                     AddedHashes(@, UniqueVariant(par.runs[r].hypothesis, par.now)),
                 !.forced = @ \cup {Len(par.hash_values) + 1},
                 !.runs[r].pc = "returned"]
    /\ UNCHANGED notParVars

\* a second passes
ParTick ==
    /\ par.pc = "started"
    /\ par.now < MaxClock
    /\ par' = [par EXCEPT !.now = @ + 1]
    /\ UNCHANGED notParVars

ParNext ==
    \/ \E mutex \in BOOLEAN, n \in 2..MaxParRuns, max_attempts \in 1..MaxParAttempts :
          ParStart(mutex, n, max_attempts)
    \/ \E r \in ParRuns, response \in Responses : ParCall(r, response)
    \/ \E r \in ParRuns : ParGatewayFails(r)
    \/ \E r \in ParRuns : ParIsNew(r)
    \/ \E r \in ParRuns : ParAdd(r)
    \/ \E r \in ParRuns : ParForceUnique(r)
    \/ ParTick

(***************************************************************************)
(* AntidoteWebAPI (src/web_server.py): start_analysis requests handled      *)
(* concurrently, and the background threads they start.  Each analysis is a *)
(* dictionary; current_analysis names the one assigned last, and a          *)
(* background thread writes to self.current_analysis as it is at the time.  *)
(***************************************************************************)
MaxRequests == 3

Requests == 1..MaxRequests

\* AntidoteWebAPI.__init__: no analysis, no thread
WebInit ==
    [current_analysis |-> 0, analysis_thread |-> 0, analyses |-> <<>>,
     threads |-> [r \in Requests |-> "none"],
     reqs |-> [r \in Requests |-> [pc |-> "none", result |-> ""]]]

\* Thread.is_alive
is_alive(threads, t) == threads[t] \in {"started", "running"}

\* request r enters start_analysis: the two guards (lines 110-114)
StartCheck(r, dataset_known) ==
    /\ web.reqs[r].pc = "none"
    /\ web' = [web EXCEPT !.reqs[r] =
                 IF web.analysis_thread # 0 /\ is_alive(web.threads, web.analysis_thread)
                 THEN [pc |-> "returned", result |-> "Analysis already running"]
                 ELSE IF ~dataset_known
                 THEN [pc |-> "returned", result |-> "Dataset not found"]
                 ELSE [pc |-> "prepare", result |-> ""]]
    /\ UNCHANGED notWebVars

\* request r assigns self.current_analysis a new dictionary (lines 117-126)
StartPrepare(r) ==
    /\ web.reqs[r].pc = "prepare"
    /\ web' = [web EXCEPT
                 !.analyses = Append(@, [request |-> r, status |-> "starting",
                                         progress |-> 0]),
                 !.current_analysis = Len(web.analyses) + 1,
                 !.reqs[r].pc = "thread"]
    /\ UNCHANGED notWebVars

\* request r creates its thread and assigns self.analysis_thread (129-132)
StartCreateThread(r) ==
    /\ web.reqs[r].pc = "thread"
    /\ web' = [web EXCEPT !.threads[r] = "created",
                          !.analysis_thread = r,
                          !.reqs[r].pc = "start"]
    /\ UNCHANGED notWebVars

\* request r starts self.analysis_thread, the thread assigned last, and
\* returns success (lines 133-135); starting a started thread raises
StartThread(r) ==
    /\ web.reqs[r].pc = "start"
    /\ IF web.threads[web.analysis_thread] = "created"
       THEN web' = [web EXCEPT
                      !.threads[web.analysis_thread] = "started",
                      !.reqs[r] = [pc |-> "returned", result |-> "Analysis started"]]
       ELSE web' = [web EXCEPT
                      !.reqs[r] = [pc |-> "raised", result |-> "RuntimeError"]]
    /\ UNCHANGED notWebVars

\* thread t sets the status of the current analysis to running (line 143)
BgRunning(t) ==
    /\ web.threads[t] = "started"
    /\ web' = [web EXCEPT !.threads[t] = "running",
                          !.analyses[web.current_analysis].status = "running"]
    /\ UNCHANGED notWebVars

\* thread t: the subprocess has ended and the results are loaded; the
\* current analysis is completed (lines 147-179)
BgCompleted(t) ==
    /\ web.threads[t] = "running"
    /\ web' = [web EXCEPT !.threads[t] = "finished",
                          !.analyses[web.current_analysis].status = "completed",
                          !.analyses[web.current_analysis].progress = 100]
    /\ UNCHANGED notWebVars

\* thread t: an exception after line 143; the current analysis is in error
\* (lines 181-185)
BgError(t) ==
    /\ web.threads[t] = "running"
    /\ web' = [web EXCEPT !.threads[t] = "finished",
                          !.analyses[web.current_analysis].status = "error"]
    /\ UNCHANGED notWebVars

WebNext ==
    \/ \E r \in Requests, dataset_known \in BOOLEAN : StartCheck(r, dataset_known)
    \/ \E r \in Requests : StartPrepare(r)
    \/ \E r \in Requests : StartCreateThread(r)
    \/ \E r \in Requests : StartThread(r)
    \/ \E t \in Requests : BgRunning(t)
    \/ \E t \in Requests : BgCompleted(t)
    \/ \E t \in Requests : BgError(t)

Init ==
    /\ hypotheses = <<>>
    /\ hash_values = <<>>
    /\ store_file = AbsentFile
    /\ clock = 0
    /\ gen = GenIdle
    /\ probe = ProbeNone
    /\ gw = GwIdle
    /\ gw_done = <<>>
    /\ comp = CompIdle
    /\ run = RunIdle
    /\ artifacts = [path \in 0..MaxFilterRuns |-> [exists |-> FALSE, lines |-> <<>>]]
    /\ ld = LoadNone
    /\ cred = CredNone
    /\ met = MetNone
    /\ pipe = PipeIdle
    /\ agg = AggNone
    /\ par = ParIdle
    /\ web = WebInit

StoreNext ==
    \/ \E m \in 1..DefaultMaxAttempts : GenStart(m)
    \/ \E r \in Responses, o \in SaveOutcomes : GenAttemptNew(r, o)
    \/ \E r \in Responses : GenAttemptDuplicate(r)
    \/ GenGatewayFails
    \/ \E o \in SaveOutcomes : GenForceUnique(o)
    \/ Tick

vars == <<storeVars, probeVars, gwVars, compVars, filterVars, loadVars, credVars, metVars, pipeVars, aggVars, parVars, webVars>>

SpecStore == Init /\ [][StoreNext]_vars

SpecProbe == Init /\ [][ProbeNext]_vars

SpecGateway == Init /\ [][GwNext]_vars

SpecCompile == Init /\ [][CompNext]_vars

SpecFilter == Init /\ [][FilterNext]_vars

SpecLoad == Init /\ [][LoadNext]_vars

SpecCred == Init /\ [][CredNext]_vars

SpecMetrics == Init /\ [][MetNext]_vars

SpecPipeline == Init /\ [][PipeNext]_vars

SpecAggregate == Init /\ [][AggNext]_vars

SpecParallel == Init /\ [][ParNext]_vars

SpecWeb == Init /\ [][WebNext]_vars

\* every request handler and every background thread that can take a step
\* eventually takes one: handlers and threads are scheduled by the
\* interpreter, and the subprocess a thread waits for ends
SpecWebFair ==
    /\ SpecWeb
    /\ \A r \in Requests :
          /\ WF_vars(StartPrepare(r) \/ StartCreateThread(r) \/ StartThread(r))
          /\ WF_vars(BgRunning(r) \/ BgCompleted(r) \/ BgError(r))

(***************************************************************************)
(* C1: in every reachable state no two stored hypotheses share a            *)
(* fingerprint: the stored fingerprint list has no duplicates, the entries  *)
(* added by the forced-uniqueness path included.                            *)
(***************************************************************************)
C1_NoDuplicateFingerprints ==
    \A i, j \in DOMAIN hash_values : i # j => hash_values[i] # hash_values[j]

(***************************************************************************)
(* C2: after add(t, runId), isNew answers false for t and for every text    *)
(* that differs from t in letter case, punctuation or word order only, and  *)
(* it answers true only for a text whose fingerprint is that of no added    *)
(* hypothesis.                                                              *)
(***************************************************************************)
C2_IsNewAfterAdd ==
    probe.pc = "probed" =>
        /\ probe.source > 0 => ~probe.is_new
        /\ probe.is_new =>
              \A i \in DOMAIN hypotheses :
                  _get_hypothesis_hash(hypotheses[i].hypothesis)
                      # _get_hypothesis_hash(probe.text)

\* a stored text was probed after two edits that changed its letters' case or
\* punctuation and the order of its words, and was found not new
C2_Witness ==
    /\ probe.pc = "probed" /\ probe.source > 0 /\ probe.edits = 2
    /\ ~probe.is_new
    /\ Split(probe.text) # Split(hypotheses[probe.source].hypothesis)
    /\ Lower(probe.text) # Lower(hypotheses[probe.source].hypothesis)

(***************************************************************************)
(* C10: one call_openai call makes at most 3 attempts; it returns the text  *)
(* of its first successful attempt and attempts nothing after it; every     *)
(* failed attempt but the third is followed by another attempt; the call    *)
(* fails only after three failures in a row.                                *)
(***************************************************************************)
C10_AtMostThreeAttempts ==
    /\ Len(gw.attempts) <= 3
    /\ \A i \in DOMAIN gw.attempts : gw.attempts[i].ok => i = Len(gw.attempts)
    /\ gw.pc = "returned" =>
          /\ gw.attempts # <<>>
          /\ gw.attempts[Len(gw.attempts)].ok
          /\ gw.result = gw.attempts[Len(gw.attempts)].text
    /\ gw.pc = "raised" =>
          /\ Len(gw.attempts) = 3
          /\ \A i \in DOMAIN gw.attempts : ~gw.attempts[i].ok
    /\ gw.pc \in {"attempting", "sleeping"} =>
          \A i \in DOMAIN gw.attempts : ~gw.attempts[i].ok
    /\ gw.pc = "sleeping" => Len(gw.attempts) \in 1..2

\* a call returned the text of its third attempt after two failures
C10_Witness ==
    /\ gw.pc = "returned"
    /\ Len(gw.attempts) = 3
    /\ ~gw.attempts[1].ok /\ ~gw.attempts[2].ok
    /\ gw.result = "len(fname) > 8"

(***************************************************************************)
(* C3: create_filter_script never raises: whatever the gateway does (a     *)
(* failure after the last attempt and a response without content included) *)
(* it ends by returning a string, never by an exception.                    *)
(***************************************************************************)
C3_CompileNeverRaises == comp.pc # "raised"

(***************************************************************************)
(* C4: no expression is evaluated outside the restricted environment: the  *)
(* environment the compile step validates an expression in is the          *)
(* production one, so every name a test evaluation resolves is a name of    *)
(* the production environment.                                              *)
(***************************************************************************)
C4_ValidatedInProductionEnvironment ==
    comp.evaluated =>
        /\ comp.builtins = production_builtins
        /\ comp.names \subseteq production_builtins \cup {"fname"}

(***************************************************************************)
(* C5: every expression create_filter_script returns, the model's own or a *)
(* fallback of the ladder, evaluates without raising on every filename of  *)
(* the dummy battery in the production environment.                         *)
(***************************************************************************)
C5_ReturnedExpressionPassesBattery ==
    comp.pc = "returned" =>
        \A i \in DOMAIN test_filenames :
            ~Eval(comp.result, production_builtins, test_filenames[i]).raised

(***************************************************************************)
(* C6: an evaluation error on one filename never aborts a filter run:      *)
(* every filename of the corpus is evaluated, and the match list is exactly *)
(* the filenames whose evaluation succeeded with a true result, in the      *)
(* order of the corpus (a filename whose evaluation raised is not in it).   *)
(***************************************************************************)
C6_MatchesAreTheSuccessfulTrueResults ==
    run.pc # "idle" =>
        /\ run.evaluated = Corpus
        /\ run.filtered =
              SelectSeq(Corpus,
                        LAMBDA fname :
                            /\ ~Eval(run.filter_code, production_builtins, fname).raised
                            /\ Eval(run.filter_code, production_builtins, fname).truthy)

(***************************************************************************)
(* C7: if the filter of a run matches no file, the resampling of that run  *)
(* yields no file and the run's confidence result is the zero case,        *)
(* whatever earlier runs matched or wrote.                                  *)
(***************************************************************************)
C7_NoMatchesGiveZeroCase ==
    run.filtered = <<>> =>
        /\ run.samples = {}
        /\ run.pc # "raised"
        /\ run.pc = "scored" => run.estimate = ZeroCase

(***************************************************************************)
(* C8: calculate_confidence never raises: with a response that cannot be   *)
(* parsed, or with any exception while estimating (a gateway failure        *)
(* included), it returns the default estimate: total the number of sampled  *)
(* files, bad half of them, confidence 0.5, a summary marked as a fallback. *)
(***************************************************************************)
C8_EstimateNeverRaises ==
    /\ run.pc # "raised"
    /\ run.pc = "scored" /\ run.estimate.summary = "default fallback" =>
          run.estimate = [confidence |-> 50, bad |-> Cardinality(run.samples) \div 2,
                          total |-> Cardinality(run.samples),
                          summary |-> "default fallback"]

(***************************************************************************)
(* C9: every estimate calculate_confidence returns has a confidence        *)
(* between 0 and 1 and 0 <= bad <= total, whatever numbers the response     *)
(* holds (confidence in hundredths).                                        *)
(***************************************************************************)
C9_EstimateInRange ==
    run.pc = "scored" =>
        /\ 0 <= run.estimate.confidence /\ run.estimate.confidence <= 100
        /\ 0 <= run.estimate.bad /\ run.estimate.bad <= run.estimate.total

(***************************************************************************)
(* C13: generate_hypothesis with max_attempts >= 1 makes at most           *)
(* max_attempts gateway calls, stops at the first response that is new to   *)
(* the store and registers exactly one hypothesis, the returned text,       *)
(* before it returns; when every response was a duplicate the registered    *)
(* and returned text is the last response followed by a suffix made from    *)
(* the time of day.                                                         *)
(***************************************************************************)
C13_GenerateRegistersOnce ==
    [][/\ gen'.calls <= gen'.max_attempts
       /\ gen.pc = "loop" /\ gen'.pc = "loop" =>
             hypotheses' = hypotheses /\ hash_values' = hash_values
       /\ gen.pc = "loop" /\ gen'.pc = "returned" =>
             /\ Len(hypotheses') = Len(hypotheses) + 1
             /\ SubSeq(hypotheses', 1, Len(hypotheses)) = hypotheses
             /\ hypotheses'[Len(hypotheses')].hypothesis = gen'.result
             /\ hypotheses'[Len(hypotheses')].run_id = gen.run_id
             /\ IF gen.attempt < gen.max_attempts
                THEN /\ gen'.calls = gen.calls + 1
                     /\ gen'.result = gen'.hypothesis
                     /\ is_new_hypothesis(hash_values, gen'.result)
                ELSE /\ gen'.calls = gen.max_attempts
                     /\ Len(gen'.result) > Len(gen.hypothesis)
                     /\ SubSeq(gen'.result, 1, Len(gen.hypothesis)) = gen.hypothesis
                     /\ Contains(SubSeq(gen'.result, Len(gen.hypothesis) + 1,
                                        Len(gen'.result)), TimeStr(clock))]_vars

\* a call that found only duplicates in two or more attempts has returned the
\* suffixed text
C13_Witness ==
    /\ gen.pc = "returned"
    /\ gen.max_attempts >= 2
    /\ gen.calls = gen.max_attempts
    /\ gen.result # gen.hypothesis
    /\ hypotheses[Len(hypotheses)].hypothesis = gen.result

C15_AddIsPersisted ==
    [][hypotheses' # hypotheses =>
          store_file' = JsonFile(hypotheses', hash_values')]_vars

(***************************************************************************)
(* C16: the store is append-only.  Every step either leaves the records     *)
(* and fingerprints alone or appends exactly one record and one fingerprint *)
(* at the end; the two lists always have the same length and the i-th       *)
(* fingerprint is the fingerprint of the i-th record.                       *)
(***************************************************************************)
C16_AppendOnly ==
    /\ [](/\ Len(hash_values) = Len(hypotheses)
          /\ \A i \in 1..Len(hypotheses) :
                hash_values[i] = _get_hypothesis_hash(hypotheses[i].hypothesis))
    /\ [][\/ hypotheses' = hypotheses /\ hash_values' = hash_values
          \/ /\ Len(hypotheses') = Len(hypotheses) + 1
             /\ Len(hash_values') = Len(hash_values) + 1
             /\ SubSeq(hypotheses', 1, Len(hypotheses)) = hypotheses
             /\ SubSeq(hash_values', 1, Len(hash_values)) = hash_values]_vars

\* two adds of different texts, the second by the forced path, have happened
C16_Witness ==
    /\ Len(hypotheses) >= 2
    /\ hypotheses[1].hypothesis # hypotheses[2].hypothesis
    /\ hash_values[1] # hash_values[2]
    /\ gen.pc = "returned"
    /\ gen.result # gen.hypothesis

(***************************************************************************)
(* C19: a filter run never overwrites, truncates or otherwise alters the    *)
(* match list written by an earlier run: a list file that exists is the     *)
(* same after every step, and a run that wrote a list names a path no       *)
(* earlier run had written.                                                 *)
(***************************************************************************)
C19_ArtifactsNeverOverwritten ==
    [][\A p \in DOMAIN artifacts :
          artifacts[p].exists => artifacts'[p] = artifacts[p]]_vars

(***************************************************************************)
(* C20: the error count that filter_data reports is the number of corpus    *)
(* filenames whose evaluation raised, and the breakdown by kind adds up to  *)
(* it.                                                                      *)
(***************************************************************************)
C20_ErrorCountIsRaisedCount ==
    run.pc # "idle" =>
        LET raised == {i \in DOMAIN Corpus :
                          Eval(run.filter_code, production_builtins, Corpus[i]).raised}
            kinds == {Eval(run.filter_code, production_builtins, Corpus[i]).exc :
                          i \in raised}
        IN  /\ run.error_count = Cardinality(raised)
            /\ DOMAIN run.error_types = kinds
            /\ \A k \in kinds :
                  run.error_types[k] =
                      Cardinality({i \in raised :
                          Eval(run.filter_code, production_builtins, Corpus[i]).exc = k})

(***************************************************************************)
(* C17: a store constructed over a corrupted or unreadable file, or over a  *)
(* file whose well-formed content is not a store, is the empty store, and   *)
(* is_new_hypothesis, add_hypothesis and get_history_for_prompt then behave *)
(* as on a fresh store: none raises, the store holds exactly what was added *)
(* since, and before any add the history is empty and every text is new.    *)
(***************************************************************************)
C17_BadFileGivesEmptyStore ==
    ld.pc = "constructed" /\ ld.source \in {"corrupt", "unreadable"} \cup OtherShapes =>
        /\ ld.raised = ""
        /\ ld.store.shape = "dict"
        /\ ld.store.keys = {"hypotheses", "hash_values"}
        /\ Len(ld.store.hypotheses) = ld.adds
        /\ Len(ld.store.hash_values) = ld.adds
        /\ ld.adds = 0 /\ ld.op = "history" => ld.history = <<>>
        /\ ld.adds = 0 /\ ld.op = "is_new" => ld.is_new

(***************************************************************************)
(* C18: get_history_for_prompt(max_length) is the empty string on an empty  *)
(* store and otherwise lists exactly the min(max_length, size) most recent  *)
(* hypotheses, in insertion order and numbered from 1; for every            *)
(* max_length >= 0 it lists no more than max_length hypotheses.             *)
(***************************************************************************)
C18_HistoryListsMostRecent ==
    ld.op = "history" /\ ld.raised = "" =>
        LET hyps == ld.store.hypotheses
            listed == Min(ld.max_length, Len(hyps))
        IN  /\ hyps = <<>> => ld.history = <<>>
            /\ hyps # <<>> =>
                  ld.history = HistoryHeader \o
                      HistoryLines(SubSeq(hyps, Len(hyps) - listed + 1, Len(hyps)), 1)
            /\ ld.history # <<>> => CountChar(ld.history, "\n") - 1 <= ld.max_length

(***************************************************************************)
(* C11: with no API key the system fails at construction, before any stage  *)
(* runs: it is never constructed, no gateway attempt is made and no stage   *)
(* takes a gateway result as its hypothesis.                                *)
(***************************************************************************)
C11_NoKeyFailsAtConstruction ==
    cred.pc # "none" /\ cred.api_key = <<>> =>
        /\ cred.pc = "refused"
        /\ cred.attempts = 0
        /\ cred.hypothesis = <<>>

(***************************************************************************)
(* C12: whatever the API key and its length, no error text the gateway      *)
(* logs contains the key verbatim.                                          *)
(***************************************************************************)
C12_LoggedErrorsHideKey ==
    cred.api_key # <<>> =>
        \A i \in DOMAIN cred.log : ~Contains(cred.log[i], cred.api_key)

(***************************************************************************)
(* C21: for every bad count B >= 0 and confidence C, calculate_metrics      *)
(* uses estimated_total_bad = max(1, round(B / max(0.1, C))), rounded to    *)
(* the nearest integer, and false_negatives = estimated_total_bad - B.      *)
(***************************************************************************)
C21_EstimateIsRounded ==
    met.pc = "returned" =>
        LET q == Div(Frac(met.bad_files, 1), Frac(Max(10, met.confidence), 100))
            floor == q.n \div q.d
            nearest == IF 2 * (q.n % q.d) > q.d THEN {floor + 1}
                       ELSE IF 2 * (q.n % q.d) < q.d THEN {floor}
                       ELSE {floor, floor + 1}
        IN  /\ \E r \in nearest : met.metrics.estimated_total_bad = Max(1, r)
            /\ met.metrics.false_negatives =
                  met.metrics.estimated_total_bad - met.bad_files

(***************************************************************************)
(* C22: the verdict label is the band of the score 0.25 precision + 0.20    *)
(* recall + 0.30 f1 + 0.25 confidence: Excellent from 0.8, Good from 0.6,   *)
(* Fair from 0.4, Poor from 0.2, Very Poor below, a score on a boundary     *)
(* getting the higher label; for bad 8, total 10, confidence 0.4 the score  *)
(* is 0.54 and the label Fair.                                              *)
(***************************************************************************)
C22_LabelIsBandOfScore ==
    met.pc = "returned" =>
        LET m == met.metrics
            score == Add(Add(Mul(m.exact.precision, Frac(25, 100)),
                             Mul(m.exact.recall, Frac(20, 100))),
                         Add(Mul(m.exact.f1_score, Frac(30, 100)),
                             Mul(Frac(met.confidence, 100), Frac(25, 100))))
        IN  /\ m.verdict.text = "Excellent" <=> Leq(Frac(8, 10), score)
            /\ m.verdict.text = "Good" <=>
                  Leq(Frac(6, 10), score) /\ ~Leq(Frac(8, 10), score)
            /\ m.verdict.text = "Fair" <=>
                  Leq(Frac(4, 10), score) /\ ~Leq(Frac(6, 10), score)
            /\ m.verdict.text = "Poor" <=>
                  Leq(Frac(2, 10), score) /\ ~Leq(Frac(4, 10), score)
            /\ m.verdict.text = "Very Poor" <=> ~Leq(Frac(2, 10), score)
            /\ <<met.bad_files, met.total_files, met.confidence>> = <<8, 10, 40>> =>
                  m.verdict.score = 54 /\ m.verdict.text = "Fair"

(***************************************************************************)
(* C28: for 0 <= B <= T and a confidence in [0, 1] calculate_metrics        *)
(* divides by nothing that is zero, false_negatives is not negative, and    *)
(* precision, recall, f1, accuracy and the verdict score lie in [0, 1].     *)
(***************************************************************************)
C28_MetricsInRange ==
    met.pc = "returned" /\ met.bad_files <= met.total_files =>
        LET m == met.metrics IN
        /\ m.dataset_size_estimate > 0
        /\ m.false_negatives >= 0
        /\ \A k \in {"precision", "recall", "f1_score", "accuracy"} :
              /\ m[k] \in 0..100
              /\ m.exact[k].d > 0
              /\ m.exact[k].n \in 0..m.exact[k].d
        /\ m.verdict.score \in 0..100
        /\ Leq(m.verdict.weighted_score, Frac(1, 1))

\* a call with fewer bad files than files and a confidence below one half,
\* whose estimate exceeds the bad files
C28_Witness ==
    /\ met.pc = "returned"
    /\ met.bad_files = 8 /\ met.total_files = 10 /\ met.confidence = 40
    /\ met.metrics.estimated_total_bad = 20
    /\ met.metrics.false_negatives = 12
    /\ met.metrics.recall = 40

(***************************************************************************)
(* C29: the verdict is self-consistent: its label is the label that the     *)
(* thresholds 0.8, 0.6, 0.4, 0.2 assign to the score reported in the same   *)
(* verdict.                                                                 *)
(***************************************************************************)
C29_LabelMatchesReportedScore ==
    met.pc = "returned" =>
        LET v == met.metrics.verdict IN
        v.text = IF v.score >= 80 THEN "Excellent"
                 ELSE IF v.score >= 60 THEN "Good"
                 ELSE IF v.score >= 40 THEN "Fair"
                 ELSE IF v.score >= 20 THEN "Poor"
                 ELSE "Very Poor"

(***************************************************************************)
(* C26: on a validation failure the fallback is that of the first category  *)
(* of the fixed order (even, odd, special character, length, short,         *)
(* number/digit, repetition, case, vowel, consonant, ratio/frequency,       *)
(* punctuation, line/content, catch-all) one of whose keywords occurs in    *)
(* the hypothesis; exactly one fallback is stored and returned, and a call  *)
(* that follows a call for the same hypothesis falls back to the same       *)
(* expression whatever the run and the response.                            *)
(***************************************************************************)
C26_FallbackOfFirstCategory ==
    /\ [](
          LET K == Keyword
              categories ==
                  << [keys |-> {K.even}, fallbacks |-> {Ladder.Even}],
                     [keys |-> {K.odd}, fallbacks |-> {Ladder.Odd}],
                     [keys |-> {K.special_character, K.non_alpha}, fallbacks |-> {Ladder.Special}],
                     [keys |-> {K.length, K.long}, fallbacks |-> {Answer.Len8, Ladder.Len10}],
                     [keys |-> {K.short}, fallbacks |-> {Ladder.Short}],
                     [keys |-> {K.number, K.digit}, fallbacks |-> {Ladder.Digit}],
                     [keys |-> {K.repeated, K.repeating, K.repetition},
                      fallbacks |-> {Ladder.Repeat1, Ladder.Repeat2}],
                     [keys |-> {K.uppercase, K.lowercase, K.case},
                      fallbacks |-> {Ladder.Upper, Ladder.Lower, Ladder.Case}],
                     [keys |-> {K.vowel}, fallbacks |-> {Ladder.Vowel}],
                     [keys |-> {K.consonant}, fallbacks |-> {Ladder.Consonant}],
                     [keys |-> {K.ratio, K.frequency},
                      fallbacks |-> {Ladder.RatioChar, Ladder.Consonant}],
                     [keys |-> {K.punctuation}, fallbacks |-> {Ladder.Punct}],
                     [keys |-> {K.line, K.content}, fallbacks |-> {Ladder.Content}],
                     [keys |-> {<<>>}, fallbacks |-> {Ladder.Default}] >>
              Matches(i, h) == \E k \in categories[i].keys : Contains(Lower(h), k)
              First(h) == CHOOSE i \in DOMAIN categories :
                              Matches(i, h) /\ \A j \in 1..(i - 1) : ~Matches(j, h)
          IN  comp.pc = "returned" /\ comp.fallback =>
                /\ comp.result \in categories[First(comp.hypothesis)].fallbacks
                /\ Cardinality({i \in DOMAIN comp.saved : comp.saved[i].is_fallback}) = 1
                /\ \A i \in DOMAIN comp.saved :
                      comp.saved[i].is_fallback => comp.saved[i].expression = comp.result)
    /\ [][/\ comp.pc = "returned" /\ comp.fallback
          /\ comp'.pc = "returned" /\ comp'.fallback
          /\ comp'.hypothesis = comp.hypothesis
          => comp'.result = comp.result]_vars

\* a second call has fallen back for a hypothesis with keywords of two
\* categories (even before number), after another response
C26_Witness ==
    /\ comp.pc = "returned" /\ comp.fallback
    /\ comp.run_id = 2
    /\ Contains(Lower(comp.hypothesis), Keyword.even)
    /\ Contains(Lower(comp.hypothesis), Keyword.number)
    /\ comp.result = Ladder.Even

(***************************************************************************)
(* C27: in filter_data a filename is counted as an evaluation error and     *)
(* kept out of the matches if and only if evaluating the expression on it   *)
(* raised: the filenames counted as errors are as many as those that        *)
(* raised, none of those is a match, and every filename whose evaluation    *)
(* succeeded with a truthy value, whatever the value, is a match.           *)
(***************************************************************************)
C27_ErrorsAreExactlyTheRaised ==
    run.pc # "idle" =>
        LET value(fname) == Eval(run.filter_code, production_builtins, fname)
            files == Range(Corpus)
        IN  /\ run.error_count = Cardinality({f \in files : value(f).raised})
            /\ \A f \in files :
                  /\ value(f).raised => f \notin Range(run.filtered)
                  /\ ~value(f).raised /\ value(f).truthy => f \in Range(run.filtered)

(***************************************************************************)
(* C23: within one run the stages execute in the order sample, hypothesize, *)
(* compile, filter, resample, estimate, each at most once and none before   *)
(* its predecessor completed: the stages called in a run are the first k of *)
(* that order, and all but the last called have returned.  A stage that     *)
(* raises ends its run only: a finished batch has a result for each of its  *)
(* runs, every run after an aborted one has called its stages, and ending a *)
(* run changes no earlier result.                                           *)
(***************************************************************************)
C23_StagesInOrderRunsIndependent ==
    /\ [](LET Order == <<"sample", "hypothesize", "compile", "filter",
                         "resample", "estimate">>
              StageOf == [sample_random_files |-> "sample",
                          generate_hypothesis |-> "hypothesize",
                          create_filter_script |-> "compile",
                          filter_data_by_name |-> "filter",
                          sample_filtered_files |-> "resample",
                          calculate_confidence |-> "estimate"]
              InOrder(called) ==
                  /\ Len(called) <= Len(Order)
                  /\ \A i \in DOMAIN called :
                        /\ StageOf[called[i].stage] = Order[i]
                        /\ i < Len(called) => called[i].outcome = "returned"
          IN  /\ InOrder(pipe.called)
              /\ \A r \in DOMAIN pipe.results :
                    /\ InOrder(pipe.results[r].called)
                    /\ pipe.results[r].called # <<>>
                    /\ pipe.results[r].status = "returned"
                          <=> /\ Len(pipe.results[r].called) = Len(Order)
                              /\ \A i \in DOMAIN pipe.results[r].called :
                                    pipe.results[r].called[i].outcome = "returned"
              /\ pipe.pc = "finished" => Len(pipe.results) = pipe.num_runs)
    /\ [][/\ \A r \in DOMAIN pipe.results :
                /\ r \in DOMAIN pipe'.results
                /\ pipe'.results[r] = pipe.results[r]
          /\ pipe.pc = "raised" /\ pipe.current_run < pipe.num_runs
                => /\ pipe'.pc = "running"
                   /\ pipe'.current_run = pipe.current_run + 1
                   /\ pipe'.called = <<>>]_vars

\* a batch ended whose first run was aborted by its third stage and whose
\* second run went through all six
C23_Witness ==
    /\ pipe.pc = "finished"
    /\ Len(pipe.results) >= 2
    /\ pipe.results[1].status = "raised"
    /\ Len(pipe.results[1].called) = 3
    /\ pipe.results[2].status = "returned"
    /\ Len(pipe.results[2].called) = 6

(***************************************************************************)
(* C24: the overall verdict uses only runs whose verdict score exceeds 0.2  *)
(* and takes the up to three highest of them in descending order: every     *)
(* run left out is at or below 0.2 or no higher than the three taken.  The  *)
(* weights are [0.6, 0.3, 0.1], for two qualifying runs [0.7, 0.3], for one *)
(* [1.0], and the overall score is the weighted sum.  For the scores        *)
(* 0.9, 0.7, 0.5 the overall score is 0.80, in the band >= 0.8.             *)
(***************************************************************************)
C24_OverallVerdictOfTopThree ==
    agg.pc = "aggregated" =>
        LET scores == agg.verdict_scores
            v == agg.verdict
            top == v.top
            Count(seq, s) == Cardinality({i \in DOMAIN seq : seq[i] = s})
            qualifying == {i \in DOMAIN scores : scores[i] > 20}
        IN  /\ Len(top) = (IF Cardinality(qualifying) < 3
                           THEN Cardinality(qualifying) ELSE 3)
            /\ \A i \in DOMAIN top :
                  /\ top[i] > 20
                  /\ Count(top, top[i]) <= Count(scores, top[i])
                  /\ i > 1 => top[i - 1] >= top[i]
            /\ \A i \in DOMAIN scores :
                  Count(top, scores[i]) < Count(scores, scores[i])
                      => \/ scores[i] <= 20
                         \/ Len(top) = 3 /\ scores[i] <= top[3]
            /\ Len(top) = 3 =>
                  v.overall_score = 60 * top[1] + 30 * top[2] + 10 * top[3]
            /\ Len(top) = 2 => v.overall_score = 70 * top[1] + 30 * top[2]
            /\ Len(top) = 1 => v.overall_score = 100 * top[1]
            /\ v.band = ">=0.8" <=> v.overall_score >= 8000
            /\ (\E i, j, k \in DOMAIN scores :
                    /\ Len(scores) = 3 /\ {i, j, k} = {1, 2, 3}
                    /\ scores[i] = 90 /\ scores[j] = 70 /\ scores[k] = 50)
                  => v.overall_score = 8000 /\ v.band = ">=0.8"

\* the example: three runs with the scores 0.5, 0.9, 0.7 aggregated
C24_Witness ==
    /\ agg.pc = "aggregated"
    /\ agg.verdict_scores = <<50, 90, 70>>
    /\ agg.verdict.top = <<90, 70, 50>>
    /\ agg.verdict.overall_score = 8000

(***************************************************************************)
(* C25: with runs generating hypotheses in parallel against one shared      *)
(* store, and each is_new_hypothesis-then-add_hypothesis pair executed      *)
(* under mutual exclusion, no two stored fingerprints are equal, whatever   *)
(* the interleaving of the runs.                                            *)
(***************************************************************************)
C25_MutexKeepsFingerprintsDistinct ==
    par.mutex =>
        \A i, j \in DOMAIN par.hash_values :
            i # j => par.hash_values[i] # par.hash_values[j]

(***************************************************************************)
(* C30: in the web API at most one analysis runs at any time, under any     *)
(* interleaving of concurrent start_analysis requests: never are two        *)
(* background threads alive; a request that enters while a thread is alive  *)
(* returns the error, starts no thread and leaves current_analysis and its  *)
(* dictionary as they are; and every analysis started eventually has the    *)
(* status completed or error.                                               *)
(***************************************************************************)
C30_OneAnalysisAtATime ==
    /\ [](Cardinality({t \in Requests : is_alive(web.threads, t)}) <= 1)
    /\ [][\A r \in Requests :
            /\ web.reqs[r].pc = "none"
            /\ web'.reqs[r].pc # "none"
            /\ \E t \in Requests : is_alive(web.threads, t)
            => /\ web'.reqs[r] = [pc |-> "returned",
                                  result |-> "Analysis already running"]
               /\ web'.threads = web.threads
               /\ web'.current_analysis = web.current_analysis
               /\ web'.analyses = web.analyses]_vars
    /\ \A a \in Requests :
          [](a \in DOMAIN web.analyses
                => <>(/\ a \in DOMAIN web.analyses
                      /\ web.analyses[a].status \in {"completed", "error"}))

====
